---- MODULE Spec2Model ----
(***************************************************************************)
(* A model of kalandra: the packet-line codec (gitprotocol.py), the mirror *)
(* diff (commands/update_mirror.py) and the connection state machines      *)
(* (transports/base.py and the file, ssh and http substrates).             *)
(*                                                                         *)
(* Bytes are one-character strings, byte strings are sequences of them.    *)
(***************************************************************************)
EXTENDS Integers, Sequences, FiniteSets, TLC

\* ------------------------------------------------------------------ bounds
\* Longest payload / tail (bytes after the 4-byte header) of the enumerated
\* small inputs of the codec.
MaxPayload == 2

\* Most refs a repository of the mirror diff's inputs advertises.
MaxRefs == 2

\* Most refs of a repository behind a connection.
MaxRepoRefs == 1

\* Most packets of a hello after the smart-HTTP preamble.
MaxHello == 3

\* Most lines of an acknowledgments section of a fetch response.
MaxAcks == 2

\* Most packets of a packfile section of a fetch response.
MaxBands == 2

\* Most changes of a push.
MaxChanges == 3

\* Most packets of the status report of a push.
MaxStatus == 2

\* Most arguments and most capabilities of a version 2 command.
MaxArgs == 2

MaxCapabilities == 2

\* State of the packet codec runs.
VARIABLES input, sent, wire, parsed, readres, cpc

codecVars == <<input, sent, wire, parsed, readres, cpc>>

\* State of the mirror diff runs.
VARIABLES mirror_refs, upstream_refs, include_filter, exclude_filter,
          changes, mirror_after, changes_again, mpc

mirrorVars == <<mirror_refs, upstream_refs, include_filter, exclude_filter,
                changes, mirror_after, changes_again, mpc>>

\* State of the connection runs: one connection, its server, the last call.
VARIABLES conn, server, last_op

connVars == <<conn, server, last_op>>

\* State of the update_mirror runs: the two connections and their servers,
\* the arguments, the position in the function and what it has done.
VARIABLES upstream_conn, mirror_conn, upstream_server, mirror_server,
          dry_run, job_filters, job_changes, result, job_raised, jpc,
          fetch_calls, push_calls, target_before

jobVars == <<upstream_conn, mirror_conn, upstream_server, mirror_server,
             dry_run, job_filters, job_changes, result, job_raised, jpc,
             fetch_calls, push_calls, target_before>>

\* State of the Transport.from_url runs: the arguments, what is at the
\* path of a file URL, and the outcome.
VARIABLES url, credentials_provider, path_kind, transport, upc

urlVars == <<url, credentials_provider, path_kind, transport, upc>>

\* State of the hello runs: the connection being opened, the body the
\* server sends, and the connection as _open_*_service_connection left it.
VARIABLES hconn, body, opened, hpc

helloVars == <<hconn, body, opened, hpc>>

\* State of the fetch_objects runs: the ready connection, the arguments of
\* the call with the response the server will give, and what the call did.
VARIABLES fconn, fetch_call, fetched, fpc

fetchVars == <<fconn, fetch_call, fetched, fpc>>

\* State of the push_changes runs: the ready connection, the arguments of
\* the call with the answer the server will give, and what the call did.
VARIABLES pconn, push_call, pushed, ppc

pushVars == <<pconn, push_call, pushed, ppc>>

\* State of the version 2 command runs: the command, its capabilities and
\* arguments, and the packets generated for it.
VARIABLES command_call, command_packets, gpc

commandVars == <<command_call, command_packets, gpc>>

\* State of the packet transaction runs: the ready connection, what is sent with the answer the server will give, the POST bodies and the bytes written to the pipe, and the packets read afterwards.
VARIABLES tconn, transaction, posts, written_bytes, send_raised, packets_read, tpc

sendVars == <<tconn, transaction, posts, written_bytes, send_raised, packets_read, tpc>>

\* State of the section reader runs: the connection with what its stream holds, how the stream ends, and what _read_packets_until_flush did.
VARIABLES uconn, stream_end, section_read, section_pc

flushVars == <<uconn, stream_end, section_read, section_pc>>

\* State of the lifecycle runs: the substrate and kind of the connection, how its hello goes, whether the service still takes writes, the substrate handle (session or process), the child of a file connection with its stderr pipe and the task that drains it, and the position in __aenter__ / __aexit__ with the exception raised.
VARIABLES lsubstrate, lkind, hello_outcome, peer, handle, child, terminated, stderr_pipe, err_task, life_raised, lpc

lifeVars == <<lsubstrate, lkind, hello_outcome, peer, handle, child, terminated, stderr_pipe, err_task, life_raised, lpc>>

\* SSH substrate: the remote process against the reads of the client
VARIABLES sconn, remote_pc, exit_status, stderr_text, remote_wrote, ssh_delivered, ssh_raised, ssh_message, ssh_pc

sshVars == <<sconn, remote_pc, exit_status, stderr_text, remote_wrote, ssh_delivered, ssh_raised, ssh_message, ssh_pc>>

vars == <<codecVars, mirrorVars, connVars, jobVars, urlVars, helloVars, fetchVars, pushVars, commandVars,
    sendVars,
    flushVars,
    lifeVars,
    sshVars>>

notCodec == <<mirrorVars, connVars, jobVars, urlVars, helloVars, fetchVars, pushVars, commandVars,
    sendVars,
    flushVars,
    lifeVars,
    sshVars>>

notMirror == <<codecVars, connVars, jobVars, urlVars, helloVars, fetchVars, pushVars, commandVars,
    sendVars,
    flushVars,
    lifeVars,
    sshVars>>

notConn == <<codecVars, mirrorVars, jobVars, urlVars, helloVars, fetchVars, pushVars, commandVars,
    sendVars,
    flushVars,
    lifeVars,
    sshVars>>

notJob == <<codecVars, mirrorVars, connVars, urlVars, helloVars, fetchVars, pushVars, commandVars,
    sendVars,
    flushVars,
    lifeVars,
    sshVars>>

notUrl == <<codecVars, mirrorVars, connVars, jobVars, helloVars, fetchVars, pushVars, commandVars,
    sendVars,
    flushVars,
    lifeVars,
    sshVars>>

notHello == <<codecVars, mirrorVars, connVars, jobVars, urlVars, fetchVars, pushVars, commandVars,
    sendVars,
    flushVars,
    lifeVars,
    sshVars>>

notFetch == <<codecVars, mirrorVars, connVars, jobVars, urlVars, helloVars, pushVars, commandVars,
    sendVars,
    flushVars,
    lifeVars,
    sshVars>>

notPush == <<codecVars, mirrorVars, connVars, jobVars, urlVars, helloVars, fetchVars,
            commandVars,
    sendVars,
    flushVars,
    lifeVars,
    sshVars>>

notCommand == <<codecVars, mirrorVars, connVars, jobVars, urlVars, helloVars, fetchVars,
               pushVars,
    sendVars,
    flushVars,
    lifeVars,
    sshVars>>

notSend == <<codecVars, mirrorVars, connVars, jobVars, urlVars, helloVars,
    fetchVars, pushVars, commandVars,
    flushVars,
    lifeVars,
    sshVars>>

notFlush == <<codecVars, mirrorVars, connVars, jobVars, urlVars, helloVars,
    fetchVars, pushVars, commandVars, sendVars,
    lifeVars,
    sshVars>>

notLife == <<codecVars, mirrorVars, connVars, jobVars, urlVars, helloVars,
    fetchVars, pushVars, commandVars, sendVars, flushVars,
    sshVars>>

notSsh == <<codecVars, mirrorVars, connVars, jobVars, urlVars, helloVars,
    fetchVars, pushVars, commandVars, sendVars, flushVars, lifeVars>>

\* ------------------------------------------------------------ small helpers
SeqsUpTo(A, n) == UNION {[1..k -> A] : k \in 0..n}

Repeat(c, n) == [i \in 1..n |-> c]

\* ------------------------------------------------------------ byte strings
\* A byte is a one-character string.  A byte string (bytes, memoryview) is
\* kept run-length encoded, so that a 64 KiB payload stays a small value: a
\* sequence of runs [c, n], n > 0, adjacent runs of different bytes.
Run(c, n) == IF n <= 0 THEN << >> ELSE <<[c |-> c, n |-> n]>>

NoBytes == << >>

\* a + b
BCat(a, b) ==
    IF a = << >> THEN b
    ELSE IF b = << >> THEN a
    ELSE IF a[Len(a)].c = b[1].c
    THEN SubSeq(a, 1, Len(a) - 1) \o Run(b[1].c, a[Len(a)].n + b[1].n) \o Tail(b)
    ELSE a \o b

\* The byte string of a sequence of bytes, and back (short strings only).
RECURSIVE Bytes(_)
Bytes(s) ==
    IF s = << >> THEN NoBytes
    ELSE BCat(Bytes(SubSeq(s, 1, Len(s) - 1)), Run(s[Len(s)], 1))

RECURSIVE Explicit(_)
Explicit(b) ==
    IF b = << >> THEN << >>
    ELSE Repeat(b[1].c, b[1].n) \o Explicit(Tail(b))

\* len(b)
RECURSIVE BLen(_)
BLen(b) == IF b = << >> THEN 0 ELSE b[1].n + BLen(Tail(b))

\* b[:n]
RECURSIVE BTake(_, _)
BTake(b, n) ==
    IF n <= 0 \/ b = << >> THEN NoBytes
    ELSE IF b[1].n >= n THEN Run(b[1].c, n)
    ELSE <<b[1]>> \o BTake(Tail(b), n - b[1].n)

\* b[n:]
RECURSIVE BDrop(_, _)
BDrop(b, n) ==
    IF n <= 0 \/ b = << >> THEN b
    ELSE IF b[1].n > n THEN Run(b[1].c, b[1].n - n) \o Tail(b)
    ELSE BDrop(Tail(b), n - b[1].n)

\* b[i:j]
BSlice(b, i, j) == BTake(BDrop(b, i), j - i)

\* ------------------------------------------------------- gitprotocol.py
HexDigits == <<"0", "1", "2", "3", "4", "5", "6", "7",
               "8", "9", "a", "b", "c", "d", "e", "f">>

IsHex(c) == \E i \in 1..16 : HexDigits[i] = c

HexDigitValue(c) == (CHOOSE i \in 1..16 : HexDigits[i] = c) - 1

AllHex(s) == \A i \in 1..Len(s) : IsHex(s[i])

RECURSIVE HexValue(_)
HexValue(s) ==
    IF s = << >> THEN 0
    ELSE 16 * HexValue(SubSeq(s, 1, Len(s) - 1)) + HexDigitValue(s[Len(s)])

\* Python's int(data, 16) on the bytes the model draws: hex digits, "-" and
\* "z" (standing for any byte that int() rejects).  A leading sign is
\* accepted by int(); a sign anywhere else, or no digit at all, is a ValueError.
int_base16(s) ==
    IF Len(s) >= 1 /\ AllHex(s)
    THEN [ok |-> TRUE, val |-> HexValue(s)]
    ELSE IF Len(s) >= 2 /\ s[1] = "-" /\ AllHex(Tail(s))
    THEN [ok |-> TRUE, val |-> 0 - HexValue(Tail(s))]
    ELSE [ok |-> FALSE, val |-> 0]

\* b"%04x" % n for n >= 0: lower-case hex, zero-padded to AT LEAST 4 digits.
RECURSIVE ToHex(_)
ToHex(n) ==
    IF n < 16 THEN <<HexDigits[n + 1]>>
    ELSE Append(ToHex(n \div 16), HexDigits[(n % 16) + 1])

Format04x(n) ==
    LET h == ToHex(n)
    IN  IF Len(h) >= 4 THEN h ELSE Repeat("0", 4 - Len(h)) \o h

TypeNames == {"DATA", "FLUSH", "DELIMITER", "RESPONSE_END", "UNKNOWN"}

MarkerTypes == TypeNames \ {"DATA"}

\* The enum's values.
PacketLineTypeValue ==
    [DATA |-> 0 - 1, FLUSH |-> 0, DELIMITER |-> 1, RESPONSE_END |-> 2, UNKNOWN |-> 3]

\* The enum's constructor PacketLineType(value): a ValueError for a value
\* that is no member's.
PacketLineType(v) ==
    IF \E t \in TypeNames : PacketLineTypeValue[t] = v
    THEN [ok |-> TRUE, type |-> CHOOSE t \in TypeNames : PacketLineTypeValue[t] = v]
    ELSE [ok |-> FALSE, type |-> "UNKNOWN"]

\* PacketLine.__init__
PacketLine(length, data, type) == [length |-> length, data |-> data, type |-> type]

NoPacket == PacketLine(0, NoBytes, "UNKNOWN")

\* An optional payload (Buffer | None).
None == [some |-> FALSE, v |-> NoBytes]

Some(b) == [some |-> TRUE, v |-> b]

\* The outcome of a call that may raise.
Ok(p) == [ok |-> TRUE, err |-> "", pkt |-> p]

Raise(e) == [ok |-> FALSE, err |-> e, pkt |-> NoPacket]

\* A variant of from_marker_and_payload that answers every marker with the
\* shared FLUSH packet.
from_marker_and_payload_flush(pkt_type, payload) ==
    IF pkt_type # "DATA"
    THEN Ok(PacketLine(0, NoBytes, "FLUSH"))
    ELSE IF ~payload.some
    THEN Raise("payload_required")
    ELSE Ok(PacketLine(BLen(payload.v), payload.v, pkt_type))

\* PacketLine.from_marker_and_payload
from_marker_and_payload(pkt_type, payload) ==
    IF pkt_type # "DATA"
    THEN Ok(PacketLine(0, NoBytes, pkt_type))
    ELSE IF ~payload.some
    THEN Raise("payload_required")
    ELSE Ok(PacketLine(BLen(payload.v), payload.v, pkt_type))

\* PacketLine.data_from_string
data_from_string(str) ==
    LET encoded == BCat(str, Bytes(<<"\n">>))
    IN  PacketLine(BLen(encoded), encoded, "DATA")

\* A variant of sniff_buffer whose completeness test is off by one
\* (>= for >): a packet that exactly fills the buffer counts as truncated.
sniff_buffer_off_by_one(data) ==
    IF BLen(data) < 4
    THEN [err |-> "", type |-> "None", len |-> 4 - BLen(data), payload |-> None]
    ELSE LET m == int_base16(Explicit(BTake(data, 4)))
         IN  IF ~m.ok
             THEN [err |-> "invalid_literal", type |-> "None", len |-> 0, payload |-> None]
             ELSE IF m.val >= 4
             THEN IF m.val >= BLen(data)
                  THEN [err |-> "", type |-> "DATA", len |-> (BLen(data) - m.val) - 1,
                        payload |-> None]
                  ELSE [err |-> "", type |-> "DATA", len |-> m.val - 4,
                        payload |-> Some(BSlice(data, 4, m.val))]
             ELSE IF ~PacketLineType(m.val).ok
             THEN [err |-> "invalid_type", type |-> "None", len |-> 0, payload |-> None]
             ELSE [err |-> "", type |-> PacketLineType(m.val).type, len |-> 0,
                   payload |-> None]

\* PacketLine.sniff_buffer: (type | None, length, payload | None), or the
\* ValueError of int() / of the enum constructor.
sniff_buffer(data) ==
    IF BLen(data) < 4
    THEN [err |-> "", type |-> "None", len |-> 4 - BLen(data), payload |-> None]
    ELSE LET m == int_base16(Explicit(BTake(data, 4)))
         IN  IF ~m.ok
             THEN [err |-> "invalid_literal", type |-> "None", len |-> 0, payload |-> None]
             ELSE IF m.val >= 4
             THEN IF m.val > BLen(data)
                  THEN [err |-> "", type |-> "DATA", len |-> BLen(data) - m.val,
                        payload |-> None]
                  ELSE [err |-> "", type |-> "DATA", len |-> m.val - 4,
                        payload |-> Some(BSlice(data, 4, m.val))]
             ELSE IF ~PacketLineType(m.val).ok
             THEN [err |-> "invalid_type", type |-> "None", len |-> 0, payload |-> None]
             ELSE [err |-> "", type |-> PacketLineType(m.val).type, len |-> 0,
                   payload |-> None]

\* PacketLine.from_buffer
from_buffer(data) ==
    LET sn == sniff_buffer(data)
    IN  IF sn.err # "" THEN Raise(sn.err)
        ELSE IF sn.type = "None" THEN Raise("short_buffer")
        ELSE IF sn.len < 0 THEN Raise("truncated_payload")
        ELSE from_marker_and_payload(sn.type, sn.payload)

\* A variant of marker_bytes that forgets the header's own four bytes.
marker_bytes_payload_only(pkt) ==
    Bytes(Format04x(IF pkt.type = "DATA" THEN pkt.length
                    ELSE PacketLineTypeValue[pkt.type]))

\* PacketLine.marker_bytes
marker_bytes(pkt) ==
    Bytes(Format04x(IF pkt.type = "DATA" THEN pkt.length + 4
                    ELSE PacketLineTypeValue[pkt.type]))

\* PacketLineType.from_bytes: (type, payload length) or a ValueError.
from_bytes(data) ==
    IF BLen(data) # 4 THEN [err |-> "marker_size", type |-> "None", len |-> 0]
    ELSE LET m == int_base16(Explicit(data))
         IN  IF ~m.ok THEN [err |-> "invalid_literal", type |-> "None", len |-> 0]
             ELSE IF m.val >= 4 THEN [err |-> "", type |-> "DATA", len |-> m.val - 4]
             ELSE IF ~PacketLineType(m.val).ok
             THEN [err |-> "invalid_type", type |-> "None", len |-> 0]
             ELSE [err |-> "", type |-> PacketLineType(m.val).type, len |-> 0]

\* -------------------------------------------------- transports/base.py
\* BaseConnection._write_packet on a writer whose buffered bytes are w:
\* the header, then the payload.
write_packet_bytes(w, pkt) == BCat(BCat(w, marker_bytes(pkt)), pkt.data)

\* BaseConnection._read_packet on a reader at end of stream holding the
\* bytes r (no packet pushed back): the packet and the bytes left, or the
\* IncompleteReadError of readexactly, or a ValueError.
read_packet_bytes(r) ==
    IF BLen(r) < 4
    THEN [ok |-> FALSE, err |-> "incomplete_read", pkt |-> NoPacket, rest |-> NoBytes]
    ELSE LET t == from_bytes(BTake(r, 4))
             after == BDrop(r, 4)
         IN  IF t.err # ""
             THEN [ok |-> FALSE, err |-> t.err, pkt |-> NoPacket, rest |-> after]
             ELSE IF t.type = "DATA"
             THEN IF BLen(after) < t.len
                  THEN [ok |-> FALSE, err |-> "incomplete_read", pkt |-> NoPacket,
                        rest |-> NoBytes]
                  ELSE [ok |-> TRUE, err |-> "",
                        pkt |-> from_marker_and_payload(
                                    t.type, Some(BTake(after, t.len))).pkt,
                        rest |-> BDrop(after, t.len)]
             ELSE [ok |-> TRUE, err |-> "",
                   pkt |-> from_marker_and_payload(t.type, None).pkt,
                   rest |-> after]

\* =================================================================== codec
\* The codec driven on bounded inputs: a packet is built and written to a
\* wire, or raw bytes are placed on it, and the wire is parsed back.

PayloadAlphabet == {"a", "0"}

HeaderAlphabet == {"0", "1", "4", "5", "f", "-", "z"}

\* Payload lengths around the limits: 65515 (the documented maximum),
\* 65531 (the last length whose header still has four digits) and the next.
BigLengths == {65515, 65516, 65531, 65532}

Payloads ==
    {Bytes(p) : p \in SeqsUpTo(PayloadAlphabet, MaxPayload)}
    \cup {BCat(Bytes(p), Run("a", n - Len(p))) : p \in SeqsUpTo({"0"}, 1), n \in BigLengths}

Strings ==
    {Bytes(p) : p \in SeqsUpTo(PayloadAlphabet, MaxPayload)}
    \cup {Run("a", n - 1) : n \in BigLengths}

Buffers ==
    {Bytes(h) : h \in SeqsUpTo(HeaderAlphabet, 3)}
    \cup {Bytes(h \o t) : h \in [1..4 -> HeaderAlphabet],
                          t \in SeqsUpTo(PayloadAlphabet, MaxPayload)}

Inputs ==
    [kind : {"data"}, type : {"DATA"}, bytes : Payloads]
    \cup [kind : {"string"}, type : {"DATA"}, bytes : Strings]
    \cup [kind : {"marker"}, type : MarkerTypes, bytes : {NoBytes}]
    \cup [kind : {"buffer"}, type : {"None"}, bytes : Buffers]

NoRead == [ok |-> FALSE, err |-> "", pkt |-> NoPacket, rest |-> NoBytes]

CodecIdle ==
    /\ input = [kind |-> "none", type |-> "None", bytes |-> NoBytes]
    /\ sent = NoPacket
    /\ wire = NoBytes
    /\ parsed = Raise("")
    /\ readres = NoRead
    /\ cpc = "idle"

CodecInit ==
    /\ input \in Inputs
    /\ sent = NoPacket
    /\ wire = NoBytes
    /\ parsed = Raise("")
    /\ readres = NoRead
    /\ cpc = "new"

\* The packet a caller builds from the input.
BuildPacket(i) ==
    IF i.kind = "string" THEN data_from_string(i.bytes)
    ELSE IF i.kind = "data" THEN from_marker_and_payload("DATA", Some(i.bytes)).pkt
    ELSE from_marker_and_payload(i.type, None).pkt

\* BaseConnection._write_packet(packet) on an empty writer.
WritePacket ==
    /\ cpc = "new"
    /\ input.kind \in {"data", "string", "marker"}
    /\ sent' = BuildPacket(input)
    /\ wire' = write_packet_bytes(NoBytes, sent')
    /\ cpc' = "wire"
    /\ UNCHANGED <<input, parsed, readres>>
    /\ UNCHANGED notCodec

\* Bytes received from a peer.
FeedBuffer ==
    /\ cpc = "new"
    /\ input.kind = "buffer"
    /\ wire' = input.bytes
    /\ cpc' = "wire"
    /\ UNCHANGED <<input, sent, parsed, readres>>
    /\ UNCHANGED notCodec

\* PacketLine.from_buffer(wire)
FromBuffer ==
    /\ cpc = "wire"
    /\ parsed' = from_buffer(wire)
    /\ cpc' = "parsed"
    /\ UNCHANGED <<input, sent, wire, readres>>
    /\ UNCHANGED notCodec

\* BaseConnection._read_packet() with the wire as the reader's content.
ReadPacket ==
    /\ cpc = "parsed"
    /\ readres' = read_packet_bytes(wire)
    /\ cpc' = "read"
    /\ UNCHANGED <<input, sent, wire, parsed>>
    /\ UNCHANGED notCodec

CodecNext == WritePacket \/ FeedBuffer \/ FromBuffer \/ ReadPacket

\* ========================================================== mirror diff
\* commands/update_mirror.py.  A ref name is the sequence of its path
\* segments; a dict[str, str] is the sequence of its items in insertion order.
NULL_OBJECT_ID == "0000000000000000000000000000000000000000"

\* Ref(name, object_id)
Ref(name, object_id) == [name |-> name, object_id |-> object_id]

\* RefChange(ref, old, new)
RefChange(ref, old, new) == [ref |-> ref, old |-> old, new |-> new]

\* RefChange.is_delete / is_create / is_update
is_delete(c) == c.new = NULL_OBJECT_ID

is_create(c) == c.old = NULL_OBJECT_ID

is_update(c) == c.old # NULL_OBJECT_ID /\ c.new # NULL_OBJECT_ID

\* dict: keys, lookup, pop(key, default) and item assignment.
DictKeys(dict) == {dict[i].name : i \in 1..Len(dict)}

DictGet(dict, key, default) ==
    IF key \in DictKeys(dict)
    THEN dict[CHOOSE i \in 1..Len(dict) : dict[i].name = key].object_id
    ELSE default

RECURSIVE DictRemove(_, _)
DictRemove(dict, key) ==
    IF dict = << >> THEN << >>
    ELSE IF dict[1].name = key THEN Tail(dict)
    ELSE <<dict[1]>> \o DictRemove(Tail(dict), key)

DictSet(dict, key, value) ==
    IF key \in DictKeys(dict)
    THEN [i \in 1..Len(dict) |->
            IF dict[i].name = key THEN Ref(key, value) ELSE dict[i]]
    ELSE Append(dict, Ref(key, value))

\* fnmatch.translate(glob) matched with re.match, for the globs the model
\* draws: literal segments, optionally ending in a "*" segment, which matches
\* any rest of the name ("*" also matches "/").
fnmatch(glob, name) ==
    IF glob # << >> /\ glob[Len(glob)] = "*"
    THEN /\ Len(name) >= Len(glob)
         /\ SubSeq(name, 1, Len(glob) - 1) = SubSeq(glob, 1, Len(glob) - 1)
    ELSE name = glob

\* create_glob_filter(*globs): None without globs, else the predicate of the
\* alternation of the translated globs.
create_glob_filter(globs) ==
    IF globs = {} THEN [none |-> TRUE, globs |-> {}]
    ELSE [none |-> FALSE, globs |-> globs]

filter_func(f, name) == \E g \in f.globs : fnmatch(g, name)

\* include_filter or (lambda _: True) / exclude_filter or (lambda _: False)
IncludeCall(f, name) == IF f.none THEN TRUE ELSE filter_func(f, name)

ExcludeCall(f, name) == IF f.none THEN FALSE ELSE filter_func(f, name)

\* The comprehension without its "not exclude(k)" condition.
RECURSIVE FilteredRefs_include_only(_, _, _)
FilteredRefs_include_only(dict, inc, exc) ==
    IF dict = << >> THEN << >>
    ELSE (IF IncludeCall(inc, dict[1].name) THEN <<dict[1]>> ELSE << >>)
         \o FilteredRefs_include_only(Tail(dict), inc, exc)

\* refs_to_update = {k: v for k, v in mirror_refs.items() if include(k) and not exclude(k)}
RECURSIVE FilteredRefs(_, _, _)
FilteredRefs(dict, inc, exc) ==
    IF dict = << >> THEN << >>
    ELSE (IF IncludeCall(inc, dict[1].name) /\ ~ExcludeCall(exc, dict[1].name)
          THEN <<dict[1]>> ELSE << >>)
         \o FilteredRefs(Tail(dict), inc, exc)

\* The loop turn reading refs_to_update with get() where the code pops.
UpstreamStep_get(st, ref, inc, exc) ==
    IF ~IncludeCall(inc, ref.name)
    THEN [st EXCEPT !.refs_to_update = DictRemove(@, ref.name)]
    ELSE IF ExcludeCall(exc, ref.name)
    THEN [st EXCEPT !.refs_to_update = DictRemove(@, ref.name)]
    ELSE LET old_id == DictGet(st.refs_to_update, ref.name, NULL_OBJECT_ID)
         IN  [refs_to_update |-> st.refs_to_update,
              changes |-> IF old_id # ref.object_id
                          THEN Append(st.changes, RefChange(ref.name, old_id, ref.object_id))
                          ELSE st.changes]

\* One turn of "async for ref in upstream_refs" on the loop's state
\* [refs_to_update, changes].
UpstreamStep(st, ref, inc, exc) ==
    IF ~IncludeCall(inc, ref.name)
    THEN [st EXCEPT !.refs_to_update = DictRemove(@, ref.name)]
    ELSE IF ExcludeCall(exc, ref.name)
    THEN [st EXCEPT !.refs_to_update = DictRemove(@, ref.name)]
    ELSE LET old_id == DictGet(st.refs_to_update, ref.name, NULL_OBJECT_ID)
         IN  [refs_to_update |-> DictRemove(st.refs_to_update, ref.name),
              changes |-> IF old_id # ref.object_id
                          THEN Append(st.changes, RefChange(ref.name, old_id, ref.object_id))
                          ELSE st.changes]

RECURSIVE UpstreamLoop(_, _, _, _)
UpstreamLoop(st, refs, inc, exc) ==
    IF refs = << >> THEN st
    ELSE UpstreamLoop(UpstreamStep(st, refs[1], inc, exc), Tail(refs), inc, exc)

\* "Refs to delete": one RefChange per item left in refs_to_update.
DeleteChanges(dict) ==
    [i \in 1..Len(dict) |-> RefChange(dict[i].name, dict[i].object_id, NULL_OBJECT_ID)]

\* calculate_mirror_updates, collected into a list.
calculate_mirror_updates(mirror, upstream, inc, exc) ==
    LET st == UpstreamLoop([refs_to_update |-> FilteredRefs(mirror, inc, exc),
                            changes |-> << >>],
                           upstream, inc, exc)
    IN  st.changes \o DeleteChanges(st.refs_to_update)

\* What the mirror's refs become when it accepts the pushed commands
\* "<old> <new> <ref>": a new id of all zeros removes the ref, any other
\* sets it.
RECURSIVE ApplyChanges(_, _)
ApplyChanges(list, dict) ==
    IF list = << >> THEN dict
    ELSE ApplyChanges(Tail(list),
                      IF is_delete(list[1]) THEN DictRemove(dict, list[1].ref)
                      ELSE DictSet(dict, list[1].ref, list[1].new))

RefNames == {<<"refs", "heads", "main">>,
             <<"refs", "heads", "private", "x">>,
             <<"refs", "meta", "config">>}

\* The placeholder an empty repository advertises in a v1 hello, with the
\* all-zero id.
CapabilitiesRef == Ref(<<"capabilities^{}">>, NULL_OBJECT_ID)

ObjectIds == {"abc123", "def456"}

Globs == {<<"refs", "heads", "*">>, <<"refs", "heads", "private", "*">>}

\* The ref advertisements of a repository, in any order: up to MaxRefs refs
\* of distinct names, or the placeholder of an empty repository.
RefLists ==
    {l \in UNION {[1..k -> [name : RefNames, object_id : ObjectIds]] : k \in 0..MaxRefs} :
        \A i, j \in 1..Len(l) : i # j => l[i].name # l[j].name}
    \cup {<<CapabilitiesRef>>}

MirrorIdle ==
    /\ mirror_refs = << >>
    /\ upstream_refs = << >>
    /\ include_filter = create_glob_filter({})
    /\ exclude_filter = create_glob_filter({})
    /\ changes = << >>
    /\ mirror_after = << >>
    /\ changes_again = << >>
    /\ mpc = "idle"

MirrorInit ==
    /\ mirror_refs \in RefLists
    /\ upstream_refs \in RefLists
    /\ include_filter \in {create_glob_filter(g) : g \in SUBSET Globs}
    /\ exclude_filter \in {create_glob_filter(g) : g \in SUBSET Globs}
    /\ changes = << >>
    /\ mirror_after = << >>
    /\ changes_again = << >>
    /\ mpc = "new"

\* changes = [c async for c in calculate_mirror_updates(...)]
Calculate ==
    /\ mpc = "new"
    /\ changes' = calculate_mirror_updates(mirror_refs, upstream_refs,
                                           include_filter, exclude_filter)
    /\ mpc' = "calculated"
    /\ UNCHANGED <<mirror_refs, upstream_refs, include_filter, exclude_filter,
                   mirror_after, changes_again>>
    /\ UNCHANGED notMirror

\* The mirror applies the changes.
Apply ==
    /\ mpc = "calculated"
    /\ mirror_after' = ApplyChanges(changes, mirror_refs)
    /\ mpc' = "applied"
    /\ UNCHANGED <<mirror_refs, upstream_refs, include_filter, exclude_filter,
                   changes, changes_again>>
    /\ UNCHANGED notMirror

\* A second run against the updated mirror.
Recalculate ==
    /\ mpc = "applied"
    /\ changes_again' = calculate_mirror_updates(mirror_after, upstream_refs,
                                                 include_filter, exclude_filter)
    /\ mpc' = "recalculated"
    /\ UNCHANGED <<mirror_refs, upstream_refs, include_filter, exclude_filter,
                   changes, mirror_after>>
    /\ UNCHANGED notMirror

MirrorNext == Calculate \/ Apply \/ Recalculate

\* ============================================================ connections
\* transports/base.py with the substrates of file.py, ssh.py and http.py.
\* A connection is the record of its fields; "None" is None, protocol 0 is
\* None.  phase is not a field of the code: it records the lifecycle stage
\* the calls so far have brought the connection to.
NoProtocol == 0

NoCachedRefs == [set |-> FALSE, refs |-> << >>]

\* BaseConnection.__init__ + FetchConnection.__init__ / PushConnection.__init__
NewConnection(kind, substrate) ==
    [kind |-> kind,
     substrate |-> substrate,
     reader |-> "None",
     writer |-> "None",
     git_protocol |-> IF kind = "fetch" THEN 2 ELSE 1,
     _negotiated_protocol |-> NoProtocol,
     capabilities |-> {},
     _cached_refs |-> NoCachedRefs,
     refs |-> << >>,
     _session |-> "None",
     process |-> "None",
     phase |-> "unopened"]

\* BaseConnection.negotiated_protocol
negotiated_protocol(c) ==
    IF c._negotiated_protocol # NoProtocol THEN c._negotiated_protocol
    ELSE c.git_protocol

\* The service behind a connection: the protocol version its upload-pack
\* answers with, the refs of its repository and its capabilities.
\* receive-pack speaks version 1 only.
ServerAnswer(srv, kind) == IF kind = "fetch" THEN srv.protocol ELSE 1

\* The ref lines of a version 1 advertisement: the refs, or the placeholder
\* of a repository without refs.
Advertisement(srv) == IF srv.refs = << >> THEN <<CapabilitiesRef>> ELSE srv.refs

\* The result of a call: the connection and server after it, the exception
\* it raised ("" for none), whether it read or wrote on the substrate, and
\* the refs it returned.
Result(c, srv, raised, io, returned) ==
    [conn |-> c, server |-> srv, raised |-> raised, io |-> io, returned |-> returned]

\* _open_service_connection of the three substrates.  The HTTP one reads the
\* first packets of the advertisement, sets _negotiated_protocol from them
\* and returns no writer.
open_service_connection(c, srv) ==
    IF c.substrate = "http"
    THEN [c EXCEPT !._session = "open",
                   !.reader = "open",
                   !.writer = "None",
                   !._negotiated_protocol = ServerAnswer(srv, c.kind)]
    ELSE [c EXCEPT !.process = "running",
                   !.reader = "open",
                   !.writer = "open"]

\* FetchConnection.__aenter__ / PushConnection.__aenter__
aenter(c, srv) ==
    IF c.reader # "None" \/ c.writer # "None"
    THEN Result(c, srv, "AssertionError", FALSE, << >>)
    ELSE LET o == open_service_connection(c, srv)
         IN  IF c.kind = "fetch"
             THEN IF negotiated_protocol(o) = 2
                  THEN \* _process_hello_v2
                       IF ServerAnswer(srv, "fetch") = 2
                       THEN Result([o EXCEPT !.capabilities = srv.capabilities,
                                             !.phase = "ready"],
                                   srv, "", TRUE, << >>)
                       ELSE Result([o EXCEPT !.phase = "failed"],
                                   srv, "ValueError", TRUE, << >>)
                  ELSE \* _process_hello_v1
                       Result([o EXCEPT !.capabilities = srv.capabilities,
                                        !._cached_refs = [set |-> TRUE,
                                                          refs |-> Advertisement(srv)],
                                        !.phase = "ready"],
                              srv, "", TRUE, << >>)
             ELSE \* _read_v1_server_hello
                  IF negotiated_protocol(o) # 1
                  THEN Result([o EXCEPT !.phase = "failed"],
                              srv, "AssertionError", TRUE, << >>)
                  ELSE Result([o EXCEPT !.capabilities = srv.capabilities,
                                        !.refs = Advertisement(srv),
                                        !.phase = "ready"],
                              srv, "", TRUE, << >>)

\* _close_service_connection of the three substrates: the file one reads
\* self.process, which only _open_service_connection sets; the HTTP one
\* closes the session and keeps the reference to it.
close_service_connection(c) ==
    IF c.substrate = "http"
    THEN [ok |-> TRUE,
          conn |-> [c EXCEPT !._session = IF @ = "None" THEN "None" ELSE "closed"]]
    ELSE IF c.process = "None"
    THEN [ok |-> FALSE, conn |-> c]
    ELSE [ok |-> TRUE, conn |-> [c EXCEPT !.process = "exited"]]

\* FetchConnection.__aexit__ / PushConnection.__aexit__: a flush packet goes
\* out on the writer if there is one, reader and writer become None, the
\* service connection is closed.  On a connection that was never opened
\* nothing changes, and it stays unopened.
aexit(c, srv) ==
    LET wrote == c.writer # "None"
        d == close_service_connection([c EXCEPT !.reader = "None", !.writer = "None"])
    IN  IF d.ok
        THEN Result([d.conn EXCEPT !.phase = IF @ = "unopened" THEN @ ELSE "closed"],
                    srv, "", wrote, << >>)
        ELSE Result(d.conn, srv, "AttributeError", wrote, << >>)

\* _send_packet_transaction (base and HTTP fetch) and _send_commands (base and
\* HTTP push): the exception the call raises before anything is sent, or "".
\* A POST on a closed aiohttp session raises RuntimeError.
SendRaises(c) ==
    IF c.substrate = "http"
    THEN IF c.writer # "None" THEN "AssertionError"
         ELSE IF c._session = "None" THEN "AssertionError"
         ELSE IF c._session = "closed" THEN "RuntimeError"
         ELSE ""
    ELSE IF c.writer = "None" THEN "AssertionError" ELSE ""

\* The connection after a sent request: the HTTP substrate reads the answer
\* from the response of the POST.
AfterSend(c) == IF c.substrate = "http" THEN [c EXCEPT !.reader = "open"] ELSE c

\* name.startswith(prefix); a prefix is a sequence of leading path segments
name_startswith(name, prefix) ==
    Len(prefix) <= Len(name) /\ SubSeq(name, 1, Len(prefix)) = prefix

\* "if prefix and not name.startswith(prefix): continue" over a listing
RECURSIVE with_prefix(_, _)
with_prefix(refs, prefix) ==
    IF refs = << >> THEN << >>
    ELSE (IF prefix # << >> /\ ~name_startswith(refs[1].name, prefix) THEN << >>
          ELSE <<refs[1]>>) \o with_prefix(Tail(refs), prefix)

\* What the server answers to the ls-refs command: its refs, those under the
\* ref-prefix argument if there is one.
ls_refs_response(srv, prefix) == with_prefix(srv.refs, prefix)

\* FetchConnection.ls_refs(prefix), iterated to its end.
ls_refs_prefix(c, srv, prefix) ==
    IF negotiated_protocol(c) = 1
    THEN IF ~c._cached_refs.set
         THEN Result(c, srv, "AttributeError", FALSE, << >>)
         ELSE Result(c, srv, "", FALSE, with_prefix(c._cached_refs.refs, prefix))
    ELSE IF SendRaises(c) # ""
    THEN Result(c, srv, SendRaises(c), FALSE, << >>)
    ELSE IF AfterSend(c).reader = "None"
    THEN Result(c, srv, "AssertionError", TRUE, << >>)
    ELSE Result(AfterSend(c), srv, "", TRUE,
                with_prefix(ls_refs_response(srv, prefix), prefix))

\* FetchConnection.ls_refs(), iterated to its end.
ls_refs(c, srv) == ls_refs_prefix(c, srv, << >>)

\* FetchConnection.fetch_objects
fetch_objects(c, srv, objects) ==
    IF SendRaises(c) # ""
    THEN Result(c, srv, SendRaises(c), FALSE, << >>)
    ELSE IF AfterSend(c).reader = "None"
    THEN Result(c, srv, "AssertionError", TRUE, << >>)
    ELSE Result(AfterSend(c), srv, "", TRUE, << >>)

\* _generate_receive_commands: deletes are left out for a server without
\* delete-refs.
RECURSIVE receive_commands(_, _)
receive_commands(list, supports_delete) ==
    IF list = << >> THEN << >>
    ELSE (IF is_delete(list[1]) /\ ~supports_delete THEN << >> ELSE <<list[1]>>)
         \o receive_commands(Tail(list), supports_delete)

\* PushConnection.push_changes; the server applies the commands it receives.
push_changes(c, srv, list) ==
    IF SendRaises(c) # ""
    THEN Result(c, srv, SendRaises(c), FALSE, << >>)
    ELSE LET cmds == receive_commands(list, "delete-refs" \in c.capabilities)
             after == [srv EXCEPT !.refs = ApplyChanges(cmds, @)]
         IN  IF "report-status" \in c.capabilities /\ AfterSend(c).reader = "None"
             THEN Result(c, after, "AssertionError", TRUE, << >>)
             ELSE Result(AfterSend(c), after, "", TRUE, << >>)

\* The refs of a repository behind a connection.
RepoRefLists == {l \in RefLists : Len(l) <= MaxRepoRefs /\ l # <<CapabilitiesRef>>}

CapabilitySets == {{"report-status"}, {"report-status", "delete-refs"}}

Servers == [protocol : {1, 2}, refs : RepoRefLists, capabilities : CapabilitySets]

NoCall == [op |-> "none", phase |-> "unopened", raised |-> "", io |-> FALSE,
           returned |-> << >>, prefix |-> << >>]

\* The prefix arguments of ls_refs: none, "refs/" and "refs/heads/".
Prefixes == {<< >>, <<"refs">>, <<"refs", "heads">>}

ConnIdle ==
    /\ conn = NewConnection("fetch", "file")
    /\ server = [protocol |-> 2, refs |-> << >>, capabilities |-> {"report-status"}]
    /\ last_op = NoCall

ConnInit ==
    /\ conn \in {NewConnection(k, s) : k \in {"fetch", "push"},
                                       s \in {"file", "ssh", "http"}}
    /\ server \in Servers
    /\ last_op = NoCall

\* What a call did, with the phase it found the connection in.
Call(op, r) ==
    [op |-> op, phase |-> conn.phase, raised |-> r.raised, io |-> r.io,
     returned |-> r.returned, prefix |-> << >>]

\* async with connection: __aenter__
Open ==
    /\ LET r == aenter(conn, server)
       IN  /\ conn' = r.conn
           /\ server' = r.server
           /\ last_op' = Call("open", r)
    /\ UNCHANGED notConn

\* end of the async with block: __aexit__
Close ==
    /\ LET r == aexit(conn, server)
       IN  /\ conn' = r.conn
           /\ server' = r.server
           /\ last_op' = Call("close", r)
    /\ UNCHANGED notConn

\* [ref async for ref in connection.ls_refs(prefix)]
LsRefs ==
    /\ conn.kind = "fetch"
    /\ \E prefix \in Prefixes :
         LET r == ls_refs_prefix(conn, server, prefix)
         IN  /\ conn' = r.conn
             /\ server' = r.server
             /\ last_op' = [Call("ls_refs", r) EXCEPT !.prefix = prefix]
    /\ UNCHANGED notConn

\* await connection.fetch_objects(objects, ...)
FetchObjects ==
    /\ conn.kind = "fetch"
    /\ \E objects \in (SUBSET ObjectIds) \ {{}} :
         LET r == fetch_objects(conn, server, objects)
         IN  /\ conn' = r.conn
             /\ server' = r.server
             /\ last_op' = Call("fetch_objects", r)
    /\ UNCHANGED notConn

\* await connection.push_changes(changes, packfile), for the changes that
\* bring the server to some other repository's refs.
PushChanges ==
    /\ conn.kind = "push"
    /\ Len(server.refs) <= MaxRepoRefs
    /\ \E target \in RepoRefLists :
         LET list == calculate_mirror_updates(server.refs, target,
                         create_glob_filter({}), create_glob_filter({}))
             r == push_changes(conn, server, list)
         IN  /\ list # << >>
             /\ conn' = r.conn
             /\ server' = r.server
             /\ last_op' = Call("push_changes", r)
    /\ UNCHANGED notConn

ConnNext == Open \/ Close \/ LsRefs \/ FetchObjects \/ PushChanges

\* ========================================================== update_mirror
\* commands/update_mirror.py: update_mirror(upstream, mirror, dry_run=...,
\* include_filter=..., exclude_filter=...), one action per await.
NoFilters == [include |-> create_glob_filter({}), exclude |-> create_glob_filter({})]

\* The filters of cli.py's defaults narrowed by an exclude, and none at all
\* (as __main__.py calls update_mirror).
JobFilters ==
    {NoFilters,
     [include |-> create_glob_filter({<<"refs", "heads", "*">>}),
      exclude |-> create_glob_filter({<<"refs", "heads", "private", "*">>})]}

\* A variant of the early returns that leaves out "if dry_run".
ReturnsEarly_no_dry_run(list, dry) == list = << >>

\* "if not changes: return changes" and "if dry_run: return changes"
ReturnsEarly(list, dry) == list = << >> \/ dry

\* new_objects without the discard of NULL_OBJECT_ID
new_objects_not_discarded(list) == {list[i].new : i \in 1..Len(list)}

\* new_objects = {change.new for change in changes} - {NULL_OBJECT_ID}
new_objects(list) == {list[i].new : i \in 1..Len(list)} \ {NULL_OBJECT_ID}

JobIdle ==
    /\ upstream_conn = NewConnection("fetch", "file")
    /\ mirror_conn = NewConnection("push", "file")
    /\ upstream_server = [protocol |-> 2, refs |-> << >>, capabilities |-> {"report-status"}]
    /\ mirror_server = [protocol |-> 1, refs |-> << >>, capabilities |-> {"report-status"}]
    /\ dry_run = FALSE
    /\ job_filters = NoFilters
    /\ job_changes = << >>
    /\ result = << >>
    /\ job_raised = ""
    /\ jpc = "idle"
    /\ fetch_calls = 0
    /\ push_calls = 0
    /\ target_before = << >>

\* upstream.fetch() and mirror.push() give new connections.
JobInit ==
    /\ upstream_conn \in {NewConnection("fetch", s) : s \in {"file", "ssh", "http"}}
    /\ mirror_conn \in {NewConnection("push", s) : s \in {"file", "ssh", "http"}}
    /\ upstream_server \in {srv \in Servers : srv.capabilities = {"report-status"}}
    /\ mirror_server \in {srv \in Servers : srv.protocol = 1}
    /\ dry_run \in BOOLEAN
    /\ job_filters \in JobFilters
    /\ job_changes = << >>
    /\ result = << >>
    /\ job_raised = ""
    /\ jpc = "start"
    /\ fetch_calls = 0
    /\ push_calls = 0
    /\ target_before = mirror_server.refs

\* async with upstream.fetch() as upstream_conn: an exception of __aenter__
\* leaves the function.
EnterUpstream ==
    /\ jpc = "start"
    /\ LET r == aenter(upstream_conn, upstream_server)
       IN  /\ upstream_conn' = r.conn
           /\ job_raised' = r.raised
           /\ jpc' = IF r.raised = "" THEN "enter_mirror" ELSE "raised"
    /\ UNCHANGED <<mirror_conn, upstream_server, mirror_server, dry_run, job_filters,
                   job_changes, result, fetch_calls, push_calls, target_before>>
    /\ UNCHANGED notJob

\* ..., mirror.push() as mirror_conn: an exception of __aenter__ leaves
\* through the upstream connection's __aexit__.
EnterMirror ==
    /\ jpc = "enter_mirror"
    /\ LET r == aenter(mirror_conn, mirror_server)
       IN  /\ mirror_conn' = r.conn
           /\ job_raised' = r.raised
           /\ jpc' = IF r.raised = "" THEN "calculate" ELSE "exit_upstream"
    /\ UNCHANGED <<upstream_conn, upstream_server, mirror_server, dry_run, job_filters,
                   job_changes, result, fetch_calls, push_calls, target_before>>
    /\ UNCHANGED notJob

\* changes = [c async for c in calculate_mirror_updates(mirror_conn.refs,
\* upstream_conn.ls_refs(), ...)] and the two early returns.
CalculateChanges ==
    /\ jpc = "calculate"
    /\ LET r == ls_refs(upstream_conn, upstream_server)
           list == calculate_mirror_updates(mirror_conn.refs, r.returned,
                                            job_filters.include, job_filters.exclude)
       IN  /\ upstream_conn' = r.conn
           /\ job_raised' = r.raised
           /\ IF r.raised # ""
              THEN /\ jpc' = "exit_mirror"
                   /\ UNCHANGED <<job_changes, result>>
              ELSE /\ job_changes' = list
                   /\ IF ReturnsEarly(list, dry_run)
                      THEN result' = list /\ jpc' = "exit_mirror"
                      ELSE result' = result /\ jpc' = "fetch"
    /\ UNCHANGED <<mirror_conn, upstream_server, mirror_server, dry_run, job_filters,
                   fetch_calls, push_calls, target_before>>
    /\ UNCHANGED notJob

\* What the answer of the service makes a request raise: nothing, the
\* ConnectionException of a refused request or a failed negotiation, or the
\* ValueError of an answer that ends early.
ServiceErrors == {"", "ConnectionException", "ValueError"}

\* The result of a call whose request the service answers with an error
refused(r, srv, e) ==
    IF r.raised = "" /\ e # "" THEN Result(r.conn, srv, e, TRUE, << >>) ELSE r

\* An exception of fetch_objects that leaves the function at once, as it
\* would outside the async with block
after_fetch_unguarded(raised) == IF raised = "" THEN "push" ELSE "raised"

\* Where update_mirror goes after fetch_objects: on, or out through the
\* __aexit__ of both connections
after_fetch(raised) == IF raised = "" THEN "push" ELSE "exit_mirror"

\* if new_objects: await upstream_conn.fetch_objects(new_objects, ...)
FetchNewObjects ==
    /\ jpc = "fetch"
    /\ IF new_objects(job_changes) # {}
       THEN \E e \in ServiceErrors :
            LET r == refused(fetch_objects(upstream_conn, upstream_server,
                                           new_objects(job_changes)),
                             upstream_server, e)
            IN  /\ upstream_conn' = r.conn
                /\ job_raised' = r.raised
                /\ fetch_calls' = fetch_calls + 1
                /\ jpc' = after_fetch(r.raised)
       ELSE /\ jpc' = "push"
            /\ UNCHANGED <<upstream_conn, job_raised, fetch_calls>>
    /\ UNCHANGED <<mirror_conn, upstream_server, mirror_server, dry_run, job_filters,
                   job_changes, result, push_calls, target_before>>
    /\ UNCHANGED notJob

\* await mirror_conn.push_changes(changes, packfile); return changes
PushToMirror ==
    /\ jpc = "push"
    /\ \E e \in ServiceErrors :
       LET r == refused(push_changes(mirror_conn, mirror_server, job_changes),
                        mirror_server, e)
       IN  /\ mirror_conn' = r.conn
           /\ mirror_server' = r.server
           /\ job_raised' = r.raised
           /\ result' = IF r.raised = "" THEN job_changes ELSE result
    /\ push_calls' = push_calls + 1
    /\ jpc' = "exit_mirror"
    /\ UNCHANGED <<upstream_conn, upstream_server, dry_run, job_filters,
                   job_changes, fetch_calls, target_before>>
    /\ UNCHANGED notJob

\* Leaving the async with block: mirror_conn.__aexit__ first.
ExitMirror ==
    /\ jpc = "exit_mirror"
    /\ LET r == aexit(mirror_conn, mirror_server)
       IN  /\ mirror_conn' = r.conn
           /\ job_raised' = IF r.raised # "" THEN r.raised ELSE job_raised
    /\ jpc' = "exit_upstream"
    /\ UNCHANGED <<upstream_conn, upstream_server, mirror_server, dry_run, job_filters,
                   job_changes, result, fetch_calls, push_calls, target_before>>
    /\ UNCHANGED notJob

\* ... then upstream_conn.__aexit__, and the function returns or raises.
ExitUpstream ==
    /\ jpc = "exit_upstream"
    /\ LET r == aexit(upstream_conn, upstream_server)
           e == IF r.raised # "" THEN r.raised ELSE job_raised
       IN  /\ upstream_conn' = r.conn
           /\ job_raised' = e
           /\ jpc' = IF e = "" THEN "returned" ELSE "raised"
    /\ UNCHANGED <<mirror_conn, upstream_server, mirror_server, dry_run, job_filters,
                   job_changes, result, fetch_calls, push_calls, target_before>>
    /\ UNCHANGED notJob

JobNext ==
    \/ EnterUpstream \/ EnterMirror \/ CalculateChanges \/ FetchNewObjects
    \/ PushToMirror \/ ExitMirror \/ ExitUpstream

\* ============================================================= transports
\* Transport.from_url and the adapters' can_handle_url and __init__.  A URL
\* is the sequence of its characters.
Chars_file == <<"f", "i", "l", "e", ":", "/", "/">>

Chars_ssh == <<"s", "s", "h", ":", "/", "/">>

Chars_http == <<"h", "t", "t", "p", ":", "/", "/">>

Chars_https == <<"h", "t", "t", "p", "s", ":", "/", "/">>

\* str.startswith(prefix)
StartsWith(str, prefix) ==
    Len(str) >= Len(prefix) /\ SubSeq(str, 1, Len(prefix)) = prefix

\* str.find(ch) + 1: the place of the first ch, 0 without one
Find(str, ch) ==
    IF \E i \in 1..Len(str) : str[i] = ch
    THEN CHOOSE i \in 1..Len(str) : str[i] = ch /\ \A j \in 1..(i - 1) : str[j] # ch
    ELSE 0

\* Transport.__subclasses__() after "import kalandra.transports": the order
\* of the imports of transports/__init__.py.
Adapters == <<"FileTransport", "HTTPTransport", "SSHTransport">>

\* can_handle_url of the three adapters
can_handle_url(adapter, u) ==
    IF adapter = "FileTransport" THEN StartsWith(u, Chars_file)
    ELSE IF adapter = "HTTPTransport"
    THEN StartsWith(u, Chars_https) \/ StartsWith(u, Chars_http)
    ELSE StartsWith(u, Chars_ssh)

NoTransport == [ok |-> FALSE, adapter |-> "None", url |-> << >>,
                credentials_provider |-> "None", err |-> ""]

Instance(adapter, u, creds) ==
    [ok |-> TRUE, adapter |-> adapter, url |-> u, credentials_provider |-> creds,
     err |-> ""]

Fails(e) == [NoTransport EXCEPT !.err = e]

Digits == {"0", "1", "2", "3", "4", "5", "6", "7", "8", "9"}

\* SSHTransport.__init__: url[6:] is split at its first "/", the address
\* at its first "@", the host at its first ":" with int(port).
SSHTransport(u, creds) ==
    LET rest == SubSeq(u, 7, Len(u))
        slash == Find(rest, "/")
        address == SubSeq(rest, 1, slash - 1)
        at == Find(address, "@")
        host == SubSeq(address, at + 1, Len(address))
        colon == Find(host, ":")
        port == SubSeq(host, colon + 1, Len(host))
    IN  IF slash = 0 THEN Fails("ValueError")
        ELSE IF at = 0 THEN Fails("ValueError")
        ELSE IF colon # 0 /\ (port = << >> \/ \E i \in 1..Len(port) : port[i] \notin Digits)
        THEN Fails("ValueError")
        ELSE Instance("SSHTransport", u, creds)

\* FileTransport.__init__: the path must be a directory with an objects
\* directory in it.
FileTransport(u, creds, kind) ==
    IF kind = "missing" THEN Fails("FileNotFoundError")
    ELSE IF kind # "repository" THEN Fails("FileNotFoundError")
    ELSE Instance("FileTransport", u, creds)

\* HTTPTransport.__init__
HTTPTransport(u, creds) == Instance("HTTPTransport", u, creds)

Construct(adapter, u, creds, kind) ==
    IF adapter = "FileTransport" THEN FileTransport(u, creds, kind)
    ELSE IF adapter = "HTTPTransport" THEN HTTPTransport(u, creds)
    ELSE SSHTransport(u, creds)

\* The registered adapters that accept a URL, by their place in the order.
Accepting(u) == {i \in 1..Len(Adapters) : can_handle_url(Adapters[i], u)}

\* A variant of from_url that hands a URL no adapter accepts to the adapter
\* registered last.
from_url_fallback(u, creds, kind) ==
    IF creds = "None" THEN Fails("AssertionError")
    ELSE IF Accepting(u) = {} THEN Construct(Adapters[Len(Adapters)], u, creds, kind)
    ELSE Construct(Adapters[CHOOSE i \in Accepting(u) : \A j \in Accepting(u) : i <= j],
                   u, creds, kind)

\* Transport.from_url
from_url(u, creds, kind) ==
    IF creds = "None" THEN Fails("AssertionError")
    ELSE IF Accepting(u) = {} THEN Fails("Unsupported URL")
    ELSE Construct(Adapters[CHOOSE i \in Accepting(u) : \A j \in Accepting(u) : i <= j],
                   u, creds, kind)

Urls ==
    {
     <<"f", "i", "l", "e", ":", "/", "/", "/", "r">>,  \* file:///r
     <<"f", "i", "l", "e", ":", "/", "/", "r">>,  \* file://r
     <<"F", "I", "L", "E", ":", "/", "/", "/", "r">>,  \* FILE:///r
     <<"f", "i", "l", "e", ":", "/", "r">>,  \* file:/r
     <<"s", "s", "h", ":", "/", "/", "u", "@", "h", "/", "r">>,  \* ssh://u@h/r
     <<"s", "s", "h", ":", "/", "/", "u", "@", "h", ":", "2", "2", "/", "r">>,  \* ssh://u@h:22/r
     <<"s", "s", "h", ":", "/", "/", "u", "@", "h", ":", "p", "/", "r">>,  \* ssh://u@h:p/r
     <<"s", "s", "h", ":", "/", "/", "h", "/", "r">>,  \* ssh://h/r
     <<"s", "s", "h", ":", "/", "/", "u", "@", "h">>,  \* ssh://u@h
     <<"h", "t", "t", "p", ":", "/", "/", "h", "/", "r">>,  \* http://h/r
     <<"h", "t", "t", "p", "s", ":", "/", "/", "h", "/", "r">>,  \* https://h/r
     <<"h", "t", "t", "p", "x", ":", "/", "/", "h", "/", "r">>,  \* httpx://h/r
     <<"g", "i", "t", ":", "/", "/", "h", "/", "r">>,  \* git://h/r
     <<"u", "@", "h", ":", "r">>,  \* u@h:r
     << >>  \* (empty)
    }

CredentialProviders == {"NetrcCredentialProvider", "ChainedCredentialProvider"}

PathKinds == {"repository", "directory", "file", "missing"}

UrlIdle ==
    /\ url = << >>
    /\ credentials_provider = "None"
    /\ path_kind = "missing"
    /\ transport = NoTransport
    /\ upc = "idle"

UrlInit ==
    /\ url \in Urls
    /\ credentials_provider \in CredentialProviders
    /\ path_kind \in PathKinds
    /\ transport = NoTransport
    /\ upc = "new"

\* Transport.from_url(url, credentials_provider=...)
FromUrl ==
    /\ upc = "new"
    /\ transport' = from_url(url, credentials_provider, path_kind)
    /\ upc' = "called"
    /\ UNCHANGED <<url, credentials_provider, path_kind>>
    /\ UNCHANGED notUrl

UrlNext == FromUrl

\* ================================================================== hello
\* The hello exchange packet by packet: HTTPSmartConnection.
\* _open_service_connection, FetchConnection._process_hello_v2 and
\* BaseConnection._read_v1_server_hello.  A packet is its type and its
\* payload; a payload (bytes or str) is the sequence of its tokens: the
\* separators " ", "\n" and NUL (the zero byte), and the words between them.
Pkt(type, data) == [type |-> type, data |-> data]

FLUSH_PKT == Pkt("FLUSH", << >>)

DELIM_PKT == Pkt("DELIMITER", << >>)

NUL == "NUL"

Whitespace == {" ", "\n"}

\* bytes.rstrip() / str.rstrip()
RECURSIVE rstrip(_)
rstrip(d) ==
    IF d # << >> /\ d[Len(d)] \in Whitespace THEN rstrip(SubSeq(d, 1, Len(d) - 1))
    ELSE d

RECURSIVE lstrip(_)
lstrip(d) == IF d # << >> /\ d[1] \in Whitespace THEN lstrip(Tail(d)) ELSE d

\* bytes.strip()
strip(d) == lstrip(rstrip(d))

\* str.split(sep): the parts between the separators, empty ones included
RECURSIVE split(_, _)
split(d, sep) ==
    IF Find(d, sep) = 0 THEN <<d>>
    ELSE <<SubSeq(d, 1, Find(d, sep) - 1)>> \o split(SubSeq(d, Find(d, sep) + 1, Len(d)), sep)

\* str.split(sep, 1)
split1(d, sep) ==
    IF Find(d, sep) = 0 THEN <<d>>
    ELSE <<SubSeq(d, 1, Find(d, sep) - 1), SubSeq(d, Find(d, sep) + 1, Len(d))>>

\* Ref.from_line(line)
Ref_from_line(line) ==
    LET parts == split(line, " ")
    IN  IF Len(parts) # 2 THEN [ok |-> FALSE, ref |-> Ref(<< >>, << >>)]
        ELSE [ok |-> TRUE, ref |-> Ref(parts[2], parts[1])]

Version1 == <<"version", " ", "1">>

Version2 == <<"version", " ", "2">>

\* f"# service={service_name}\n"
ServiceHeader(service_name) == <<"#", " ", "service=" \o service_name, "\n">>

ServiceName(kind) == IF kind = "fetch" THEN "git-upload-pack" ELSE "git-receive-pack"

\* A connection with the fields the hello touches.  reader is the packets
\* the substrate still holds; at_eof tells whether the stream ends after
\* them (an HTTP body) or stays open (the pipe of a running service).
NewHelloConnection(kind, substrate) ==
    [kind |-> kind,
     substrate |-> substrate,
     reader |-> << >>,
     eof |-> FALSE,
     git_protocol |-> IF kind = "fetch" THEN 2 ELSE 1,
     _negotiated_protocol |-> NoProtocol,
     _shifted_packets |-> << >>,
     last_packet |-> Pkt("None", << >>),
     capabilities |-> {},
     _cached_refs |-> NoCachedRefs,
     refs |-> << >>]

\* The outcome of a step of the hello: the connection after it and the
\* exception it raised ("" for none, "blocked" for a read that never
\* returns).
Done(c) == [conn |-> c, err |-> "", pkt |-> Pkt("None", << >>)]

Got(c, pkt) == [conn |-> c, err |-> "", pkt |-> pkt]

Failed(c, e) == [conn |-> c, err |-> e, pkt |-> Pkt("None", << >>)]

\* _read_packet that leaves the pushed-back packets where they are and reads
\* from the stream
read_packet_past_queue(c) ==
    IF c.reader = << >>
    THEN Failed(c, IF c.eof THEN "IncompleteReadError" ELSE "blocked")
    ELSE IF c.reader[1].type = "RAW"
    THEN Failed(c, "ValueError")
    ELSE Got([c EXCEPT !.reader = Tail(@)], c.reader[1])

\* BaseConnection._read_packet; bytes that are not packet lines ("RAW") do
\* not parse as a marker.
read_packet(c) ==
    IF c._shifted_packets # << >>
    THEN Got([c EXCEPT !._shifted_packets = Tail(@)], c._shifted_packets[1])
    ELSE IF c.reader = << >>
    THEN Failed(c, IF c.eof THEN "IncompleteReadError" ELSE "blocked")
    ELSE IF c.reader[1].type = "RAW"
    THEN Failed(c, "ValueError")
    ELSE Got([c EXCEPT !.reader = Tail(@)], c.reader[1])

\* BaseConnection._at_eof
at_eof(c) == c._shifted_packets = << >> /\ c.reader = << >> /\ c.eof

\* How a stream ends: with an EOF the reader has been fed when its buffer
\* runs empty, with an EOF that comes while a read waits, or not at all.
StreamEnds == {"eof", "late", "open"}

\* self.reader.readexactly under _read_packet on a stream that ends as
\* stream_end tells
read_packet_stream(c, end) ==
    IF c._shifted_packets # << >> THEN read_packet(c)
    ELSE IF c.reader = << >>
    THEN Failed(c, IF c.eof \/ end = "late" THEN "IncompleteReadError" ELSE "blocked")
    ELSE IF c.reader[1].type = "PARTIAL"
    THEN Failed([c EXCEPT !.reader = << >>],
                IF end = "open" THEN "blocked" ELSE "IncompleteReadError")
    ELSE read_packet(c)

\* _shift_packet that drops the packet
shift_packet_dropped(c, pkt) == c

\* BaseConnection._shift_packet
shift_packet(c, pkt) == [c EXCEPT !._shifted_packets = Append(@, pkt)]

\* HTTPSmartConnection._open_service_connection after the third
\* _read_packet: pkt decides the protocol and is put back.
http_decide(pkt) ==
    IF pkt.err # "" THEN Failed(pkt.conn, pkt.err)
    ELSE Done(shift_packet(
             [pkt.conn EXCEPT !._negotiated_protocol =
                 IF pkt.pkt.type = "DATA" /\ rstrip(pkt.pkt.data) = Version2 THEN 2 ELSE 1],
             pkt.pkt))

\* ... after the second _read_packet: the flush behind the service header
http_expect_flush(flush) ==
    IF flush.err # "" THEN Failed(flush.conn, flush.err)
    ELSE IF flush.pkt.type # "FLUSH" THEN Failed(flush.conn, "AssertionError")
    ELSE http_decide(read_packet(flush.conn))

\* ... after the first _read_packet
http_header(header, service_name) ==
    IF header.err # "" THEN Failed(header.conn, header.err)
    ELSE IF header.pkt.type # "DATA" THEN Failed(header.conn, "ConnectionException")
    ELSE IF header.pkt.data = ServiceHeader(service_name)
    THEN http_expect_flush(read_packet(header.conn))
    ELSE IF rstrip(header.pkt.data) = Version2
    THEN Done(shift_packet([header.conn EXCEPT !._negotiated_protocol = 2], header.pkt))
    ELSE Failed(header.conn, "ConnectionException")

\* HTTPSmartConnection._open_service_connection from the first _read_packet
\* on; self.reader is the body of the GET response.
http_open_service_connection(c, service_name) ==
    http_header(read_packet(c), service_name)

\* _open_fetch_service_connection / _open_push_service_connection: the file
\* and ssh substrates start the service and read nothing.
open_service(c) ==
    IF c.substrate = "http" THEN http_open_service_connection(c, ServiceName(c.kind))
    ELSE Done(c)

\* The loop of _process_hello_v2 over _read_packets_until_flush: c is the
\* connection, advertised the capabilities read so far, r the packet read.
RECURSIVE read_capabilities(_, _)
RECURSIVE capability_packet(_, _)
capability_packet(r, advertised) ==
    IF r.err = "IncompleteReadError" THEN Failed(r.conn, "ValueError")
    ELSE IF r.err # "" THEN Failed(r.conn, r.err)
    ELSE IF r.pkt.type = "FLUSH"
    THEN Done([r.conn EXCEPT !.last_packet = r.pkt, !.capabilities = advertised])
    ELSE IF r.pkt.type # "DATA" THEN Failed(r.conn, "AssertionError")
    ELSE read_capabilities(r.conn, advertised \cup {rstrip(r.pkt.data)})

read_capabilities(c, advertised) ==
    IF at_eof(c) THEN Done([c EXCEPT !.capabilities = advertised])
    ELSE capability_packet(read_packet(c), advertised)

\* _process_hello_v2 without the check of the version packet
hello_v2_any_version(version_packet) ==
    IF version_packet.err # "" THEN Failed(version_packet.conn, version_packet.err)
    ELSE read_capabilities(version_packet.conn, {})

\* _process_hello_v2 after its _read_packet
hello_v2_version(version_packet) ==
    IF version_packet.err # "" THEN Failed(version_packet.conn, version_packet.err)
    ELSE IF strip(version_packet.pkt.data) # Version2
    THEN Failed(version_packet.conn, "ValueError")
    ELSE read_capabilities(version_packet.conn, {})

\* FetchConnection._process_hello_v2
process_hello_v2(c) == hello_v2_version(read_packet(c))

\* One packet of _read_packets_section: the next packet of the section, or
\* pkt.type = "None" at its end.
section_packet(r) ==
    IF r.err = "IncompleteReadError" THEN Failed(r.conn, "ValueError")
    ELSE IF r.err # "" THEN Failed(r.conn, r.err)
    ELSE IF r.pkt.type \in {"FLUSH", "DELIMITER"}
    THEN Done([r.conn EXCEPT !.last_packet = r.pkt])
    ELSE Got(r.conn, r.pkt)

section_next(c) == section_packet(read_packet(c))

\* BaseConnection._read_header_packet(section): the stripped payload in pkt
header_packet(r) ==
    IF r.err # "" THEN r
    ELSE IF r.pkt.type = "None" THEN Failed(r.conn, "StopAsyncIteration")
    ELSE IF r.pkt.type # "DATA" THEN Failed(r.conn, "ValueError")
    ELSE Got(r.conn, Pkt("DATA", rstrip(r.pkt.data)))

read_header_packet(c) == header_packet(section_next(c))

\* "async for packet in section" of _read_v1_server_hello
RECURSIVE read_ref_lines(_, _)
RECURSIVE ref_line(_, _, _)
ref_line(r, ref, refs) ==
    IF r.err # "" THEN Failed(r.conn, r.err)
    ELSE IF r.pkt.type = "None" THEN Done([r.conn EXCEPT !.refs = refs])
    ELSE IF r.pkt.type # "DATA" THEN Failed(r.conn, "AssertionError")
    ELSE IF ~ref.ok THEN Failed(r.conn, "ValueError")
    ELSE read_ref_lines(r.conn, DictSet(refs, ref.ref.name, ref.ref.object_id))

ref_line_read(r, refs) == ref_line(r, Ref_from_line(rstrip(r.pkt.data)), refs)

read_ref_lines(c, refs) == ref_line_read(section_next(c), refs)

\* The end of _read_v1_server_hello: the refs of the section and
\* frozenset(capabilities_list.split(" "))
v1_result(rest, capabilities) ==
    IF rest.err # "" THEN rest
    ELSE Done([rest.conn EXCEPT !.capabilities =
                  {capabilities[i] : i \in 1..Len(capabilities)}])

\* ... from Ref.from_line(first_ref_data) on
v1_first_ref(c, first_ref, capabilities_list) ==
    IF ~first_ref.ok THEN Failed(c, "ValueError")
    ELSE v1_result(read_ref_lines(c, <<first_ref.ref>>), split(capabilities_list, " "))

\* ... first_ref_extended.split("\x00", 1)
v1_halves(c, halves) ==
    IF Len(halves) # 2 THEN Failed(c, "ValueError")
    ELSE v1_first_ref(c, Ref_from_line(halves[1]), halves[2])

v1_first_ref_extended(first) ==
    IF first.err # "" THEN first ELSE v1_halves(first.conn, split1(first.pkt.data, NUL))

\* _read_v1_server_hello that takes every "version " packet for a violation
v1_version_v0_only(version_data) ==
    IF version_data.err # "" THEN version_data
    ELSE IF StartsWith(version_data.pkt.data, <<"version", " ">>)
    THEN Failed(version_data.conn, "ValueError")
    ELSE v1_first_ref_extended(version_data)

\* _read_v1_server_hello after its first _read_header_packet: the optional
\* version packet
v1_version(version_data) ==
    IF version_data.err # "" THEN version_data
    ELSE IF StartsWith(version_data.pkt.data, <<"version", " ">>)
    THEN IF version_data.pkt.data # Version1
         THEN Failed(version_data.conn, "ValueError")
         ELSE v1_first_ref_extended(read_header_packet(version_data.conn))
    ELSE v1_first_ref_extended(version_data)

\* BaseConnection._read_v1_server_hello: the refs in conn.refs, the
\* capabilities in conn.capabilities
read_v1_server_hello(c) ==
    IF negotiated_protocol(c) # 1 THEN Failed(c, "AssertionError")
    ELSE v1_version(read_header_packet(c))

\* FetchConnection._process_hello_v1 after _read_v1_server_hello
cache_refs(r) ==
    IF r.err # "" THEN r
    ELSE Done([r.conn EXCEPT !._cached_refs = [set |-> TRUE, refs |-> r.conn.refs],
                             !.refs = << >>])

\* The hello with a push connection that follows the negotiated protocol as
\* a fetch connection does
process_hello_push_v2(c) ==
    IF negotiated_protocol(c) = 2 THEN process_hello_v2(c)
    ELSE IF c.kind = "fetch" THEN cache_refs(read_v1_server_hello(c))
    ELSE read_v1_server_hello(c)

\* The hello part of FetchConnection.__aenter__ / PushConnection.__aenter__
process_hello(c) ==
    IF c.kind = "fetch"
    THEN IF negotiated_protocol(c) = 2 THEN process_hello_v2(c)
         ELSE IF negotiated_protocol(c) = 1 THEN cache_refs(read_v1_server_hello(c))
         ELSE Done(c)
    ELSE read_v1_server_hello(c)

\* __aenter__ after _open_*_service_connection
hello_after_open(o) ==
    [opened |-> o, hello |-> IF o.err # "" THEN o ELSE process_hello(o.conn)]

\* FetchConnection.__aenter__ / PushConnection.__aenter__ on a service that
\* answers with response
aenter_packets(c, response) ==
    hello_after_open(open_service([c EXCEPT !.reader = response,
                                            !.eof = (c.substrate = "http")]))

\* The packets a hello is made of.
HelloPackets ==
    {FLUSH_PKT,
     DELIM_PKT,
     Pkt("DATA", <<"version", " ", "2", "\n">>),
     Pkt("DATA", <<"version", " ", "2">>),
     Pkt("DATA", <<"version", " ", "1", "\n">>),
     Pkt("DATA", <<"ls-refs", "\n">>),
     Pkt("DATA", <<"agent=git/2.46">>),
     Pkt("DATA", <<"abc123", " ", "refs/heads/main", NUL, "report-status", " ",
                   "delete-refs", "\n">>),
     Pkt("DATA", <<"def456", " ", "refs/meta/config", "\n">>)}

\* What comes before them in a smart-HTTP body: nothing, or the service
\* header and a flush.
Preambles(kind) ==
    {<< >>, <<Pkt("DATA", ServiceHeader(ServiceName(kind))), FLUSH_PKT>>,
     <<Pkt("DATA", ServiceHeader(ServiceName(kind)))>>}

HelloIdle ==
    /\ hconn = NewHelloConnection("fetch", "file")
    /\ body = << >>
    /\ opened = Done(NewHelloConnection("fetch", "file"))
    /\ hpc = "idle"

HelloInit ==
    /\ \E kind \in {"fetch", "push"}, substrate \in {"file", "ssh", "http"} :
          /\ hconn = NewHelloConnection(kind, substrate)
          /\ body \in {pre \o tail : pre \in (IF substrate = "http" THEN Preambles(kind)
                                                              ELSE {<< >>}),
                                     tail \in SeqsUpTo(HelloPackets, MaxHello)}
    /\ opened = Done(hconn)
    /\ hpc = "new"

\* async with connection: __aenter__, on a service that answers with body.
\* opened keeps what the _open_*_service_connection part gave.
Hello ==
    /\ hpc = "new"
    /\ LET r == aenter_packets(hconn, body)
       IN  /\ opened' = r.opened
           /\ hconn' = r.hello.conn
           /\ hpc' = IF r.hello.err = "" THEN "ready" ELSE r.hello.err
    /\ UNCHANGED body
    /\ UNCHANGED notHello

HelloNext == Hello

\* ================================================================== fetch
\* FetchConnection.fetch_objects packet by packet: the request it sends and
\* what it does with the response.  Object ids are words; the first byte of
\* a packfile-section packet is the word "band1", "band2" or "band3" (bytes
\* 1, 2, 3) or some other word (any other byte); "INVALID" is a chunk of
\* bytes that is not valid UTF-8.
\* PacketLine.data_from_string(data): data and a newline
data_line(words) == Pkt("DATA", words \o <<"\n">>)

\* have=None
NoHave == [given |-> FALSE, items |-> << >>]

Have(items) == [given |-> TRUE, items |-> items]

\* " ".join(sorted(capabilities)) after "want <obj>"
RECURSIVE joined(_)
joined(words) ==
    IF words = << >> THEN << >> ELSE <<" ", words[1]>> \o joined(Tail(words))

\* "want <obj>" for the wants after the first, "have <obj>" for the haves
RECURSIVE lines_of(_, _)
lines_of(word, objs) ==
    IF objs = << >> THEN << >>
    ELSE <<data_line(<<word, " ", objs[1]>>)>> \o lines_of(word, Tail(objs))

\* The loop over have of _generate_fetch_v1_request
RECURSIVE have_lines_v1(_)
have_lines_v1(objs) ==
    IF objs = << >> THEN << >>
    ELSE (IF objs[1] = NULL_OBJECT_ID THEN << >> ELSE <<data_line(<<"have", " ", objs[1]>>)>>)
         \o have_lines_v1(Tail(objs))

\* The capabilities _generate_fetch_v1_request puts in use
fetch_capabilities_v1(c) ==
    {"agent=kalandra"}
    \cup (IF <<"multi_ack_detailed">> \in c.capabilities
          THEN {"multi_ack_detailed"} ELSE {})

\* The place of a capability in the order of Python strings
CapabilityRank == [cap \in {"agent=kalandra", "multi_ack_detailed"} |->
                      IF cap = "agent=kalandra" THEN 1 ELSE 2]

\* sorted(capabilities)
RECURSIVE sorted_capabilities(_)
sorted_capabilities(caps) ==
    IF caps = {} THEN << >>
    ELSE LET least == CHOOSE cap \in caps :
                         \A other \in caps : CapabilityRank[cap] <= CapabilityRank[other]
         IN  <<least>> \o sorted_capabilities(caps \ {least})

\* _generate_fetch_v1_request with the capabilities on every want
generate_fetch_v1_request_every_want(c, want, have) ==
    [i \in 1..Len(want) |->
        data_line(<<"want", " ", want[i]>> \o joined(sorted_capabilities(fetch_capabilities_v1(c))))]
    \o (IF have.given /\ have.items # << >> THEN have_lines_v1(have.items) ELSE << >>)
    \o <<FLUSH_PKT, data_line(<<"done">>)>>

\* FetchConnection._generate_fetch_v1_request; want and have in the order
\* the sets are iterated in
generate_fetch_v1_request(c, want, have) ==
    <<data_line(<<"want", " ", want[1]>>
                \o joined(sorted_capabilities(fetch_capabilities_v1(c))))>>
    \o lines_of("want", Tail(want))
    \o (IF have.given /\ have.items # << >> THEN have_lines_v1(have.items) ELSE << >>)
    \o <<FLUSH_PKT, data_line(<<"done">>)>>

\* data = f"{key}={value}" if len(value) > 0 else key
capability_line(cap) == IF cap.value # "" THEN <<cap.key \o "=" \o cap.value>> ELSE <<cap.key>>

\* One packet per item: PacketLine.data_from_string(item)
data_lines(items) == [i \in 1..Len(items) |-> data_line(items[i])]

\* _generate_command_v2 without the DELIMITER when there is nothing after it
generate_command_v2_bare(command, args, capabilities) ==
    <<data_line(<<"command=" \o command>>)>>
    \o data_lines([i \in 1..Len(capabilities) |-> capability_line(capabilities[i])])
    \o (IF args = << >> THEN << >> ELSE <<DELIM_PKT>>)
    \o data_lines(args)
    \o <<FLUSH_PKT>>

\* FetchConnection._generate_command_v2(command, args, **capabilities)
generate_command_v2(command, args, capabilities) ==
    <<data_line(<<"command=" \o command>>)>>
    \o data_lines([i \in 1..Len(capabilities) |-> capability_line(capabilities[i])])
    \o <<DELIM_PKT>>
    \o data_lines(args)
    \o <<FLUSH_PKT>>

\* "have <obj>" for the haves, "want <obj>" for the wants
args_of(word, objs) == [i \in 1..Len(objs) |-> <<word, " ", objs[i]>>]

\* The arguments _fetch_objects_v2 sends with the fetch command
fetch_args_v2(c, want, have) ==
    (IF <<"wait-for-done">> \in c.capabilities THEN <<<<"wait-for-done">>>> ELSE << >>)
    \o (IF have.given /\ have.items # << >> THEN args_of("have", have.items) ELSE << >>)
    \o args_of("want", want)
    \o <<<<"done">>>>

\* What a fetch did: the connection after it, the exception raised ("" for
\* none), the packets sent, the chunks written to output, the log and, for a
\* failed negotiation, the objects reported missing.
Fetched(c, err, request, output, log, missing) ==
    [conn |-> c, err |-> err, request |-> request, output |-> output, log |-> log,
     missing |-> missing]

NotFetched == Fetched(NewHelloConnection("fetch", "http"), "", << >>, << >>, << >>, {})

\* bytes.decode("utf-8") succeeds
utf8_valid(chunks) == \A i \in 1..Len(chunks) : chunks[i] # "INVALID"

\* The object id of an "ack" line: ack.data[4:].decode("ascii").strip()
ack_object(data) ==
    LET id == strip(SubSeq(data, 3, Len(data)))
    IN  IF Len(id) = 1 THEN id[1] ELSE "?"

\* The outcome of the loop of _process_ack_section
Acks(c, err, missing) == [conn |-> c, err |-> err, missing |-> missing]

\* The loop of _process_ack_section: the connection and the missing objects
\* when it ends, by break or at the end of the section.
RECURSIVE ack_loop(_, _)
RECURSIVE ack_line(_, _)
RECURSIVE ack_ready(_, _)
ack_ready(r, left) ==
    IF r.pkt.data = <<"ready", "\n">> THEN Acks(r.conn, "", left)
    ELSE ack_loop(r.conn, left)

ack_line(r, missing) ==
    IF r.err # "" THEN Acks(r.conn, r.err, missing)
    ELSE IF r.pkt.type = "None" THEN Acks(r.conn, "", missing)
    ELSE IF r.pkt.data = <<"nak", "\n">> THEN Acks(r.conn, "", missing)
    ELSE ack_ready(r, IF StartsWith(r.pkt.data, <<"ack", NUL>>)
                      THEN missing \ {ack_object(r.pkt.data)} ELSE missing)

ack_loop(c, missing) == ack_line(section_next(c), missing)

\* _process_ack_section after the loop: the check of last_packet
ack_verdict(a) ==
    IF a.err # "" THEN a
    ELSE IF a.conn.last_packet.type = "None" THEN Acks(a.conn, "AssertionError", a.missing)
    ELSE IF a.conn.last_packet.type = "FLUSH"
    THEN Acks(a.conn, "ConnectionException: Server negotiation failed", a.missing)
    ELSE a

\* FetchConnection._process_ack_section
process_ack_section(c, missing_objects) == ack_verdict(ack_loop(c, missing_objects))

\* The loop over the packfile section of _fetch_objects_v2
RECURSIVE packfile_loop(_, _, _, _)
RECURSIVE packfile_packet(_, _, _, _)
packfile_packet(r, request, output, log) ==
    IF r.err # "" THEN Fetched(r.conn, r.err, request, output, log, {})
    ELSE IF r.pkt.type = "None"
    THEN Fetched(r.conn, "", request, output,
                 log \o (IF r.conn.last_packet.type # "FLUSH"
                         THEN <<[level |-> "warning", msg |-> <<"Unexpected packet type">>]>>
                         ELSE << >>),
                 {})
    ELSE IF r.pkt.type # "DATA"
    THEN Fetched(r.conn, "AssertionError", request, output, log, {})
    ELSE IF r.pkt.data = << >>
    THEN Fetched(r.conn, "IndexError", request, output, log, {})
    ELSE IF r.pkt.data[1] = "band1"
    THEN packfile_loop(r.conn, request, output \o Tail(r.pkt.data), log)
    ELSE IF r.pkt.data[1] \in {"band2", "band3"}
    THEN IF ~utf8_valid(Tail(r.pkt.data))
         THEN Fetched(r.conn, "UnicodeDecodeError", request, output, log, {})
         ELSE packfile_loop(r.conn, request, output,
                  Append(log, [level |-> IF r.pkt.data[1] = "band2" THEN "info" ELSE "error",
                               msg |-> Tail(r.pkt.data)]))
    ELSE packfile_loop(r.conn, request, output, log)

packfile_loop(c, request, output, log) ==
    packfile_packet(section_next(c), request, output, log)

\* _fetch_objects_v2 that takes a section of any name for the packfile
v2_packfile_any_name(header, request, log) ==
    IF header.err # "" THEN Fetched(header.conn, header.err, request, << >>, log, {})
    ELSE packfile_loop(header.conn, request, << >>, log)

\* _fetch_objects_v2 from "if header_name != 'packfile'" on
v2_packfile(header, request, log) ==
    IF header.err # "" THEN Fetched(header.conn, header.err, request, << >>, log, {})
    ELSE IF header.pkt.data # <<"packfile">>
    THEN Fetched(header.conn, "ConnectionException: Unexpected section", request,
                 << >>, log, {})
    ELSE packfile_loop(header.conn, request, << >>, log)

\* ... after _process_ack_section
v2_after_acks(acks, request) ==
    IF acks.err # "" THEN Fetched(acks.conn, acks.err, request, << >>, << >>, acks.missing)
    ELSE v2_packfile(read_header_packet(acks.conn), request,
                     <<[level |-> "info", msg |-> <<"Did not receive ACKs">>]>>)

\* ... after the first _read_header_packet
v2_first_section(first, request, objects) ==
    IF first.err # "" THEN Fetched(first.conn, first.err, request, << >>, << >>, {})
    ELSE IF first.pkt.data = <<"acknowledgments">>
    THEN v2_after_acks(process_ack_section(first.conn, objects), request)
    ELSE v2_packfile(first, request, << >>)

\* FetchConnection._fetch_objects_v2 on a connection whose request was sent:
\* c.reader holds the response.
fetch_response_v2(c, request, objects) ==
    v2_first_section(read_header_packet(c), request, objects)

\* The payloads of what is left on the stream: "async for chunk in
\* self.reader" of _fetch_objects_v1
\* The bytes of a packet on the stream: the word "pkt" is the length marker
\* of a data packet.
stream_bytes(pkt) ==
    IF pkt.type = "FLUSH" THEN <<"0000">>
    ELSE IF pkt.type = "DELIMITER" THEN <<"0001">>
    ELSE IF pkt.type = "DATA" THEN <<"pkt">> \o pkt.data
    ELSE pkt.data

RECURSIVE rest_of_stream(_)
rest_of_stream(pkts) ==
    IF pkts = << >> THEN << >>
    ELSE stream_bytes(pkts[1]) \o rest_of_stream(Tail(pkts))

\* The loop "while pkt.data.startswith(b'ACK ')" of _fetch_objects_v1, from
\* the first _read_packet on
RECURSIVE skip_acks_v1(_)
RECURSIVE v1_ack(_)
v1_ack(r) ==
    IF r.err # "" THEN r
    ELSE IF StartsWith(r.pkt.data, <<"ACK", " ">>) THEN skip_acks_v1(r.conn)
    ELSE r

skip_acks_v1(c) == v1_ack(read_packet(c))

\* _fetch_objects_v1 that takes the pack after any packet
v1_nak_unchecked(pkt, request) ==
    IF pkt.err # "" THEN Fetched(pkt.conn, pkt.err, request, << >>, << >>, {})
    ELSE Fetched([pkt.conn EXCEPT !.reader = << >>], "", request,
                 rest_of_stream(pkt.conn.reader), << >>, {})

\* _fetch_objects_v1 from "if pkt.data.rstrip() != b'NAK'" on
v1_nak(pkt, request) ==
    IF pkt.err # "" THEN Fetched(pkt.conn, pkt.err, request, << >>, << >>, {})
    ELSE IF rstrip(pkt.pkt.data) # <<"NAK">>
    THEN Fetched(pkt.conn, "ConnectionError", request, << >>, << >>, {})
    ELSE Fetched([pkt.conn EXCEPT !.reader = << >>], "", request,
                 rest_of_stream(pkt.conn.reader), << >>, {})

\* FetchConnection._fetch_objects_v1 on a connection whose request was sent
fetch_response_v1(c, request) == v1_nak(skip_acks_v1(c), request)

\* The connection once the request is sent: the reader holds the response
answered(c, response) == [c EXCEPT !.reader = response, !.eof = TRUE]

\* FetchConnection.fetch_objects(objects, have=have, output=output) on a
\* ready connection; response is what the server answers to the request.
fetch_objects_packets(c, objects, have, response) ==
    IF negotiated_protocol(c) = 1
    THEN IF objects = << >>
         THEN Fetched(c, "AssertionError", << >>, << >>, << >>, {})
         ELSE fetch_response_v1(answered(c, response),
                                generate_fetch_v1_request(c, objects, have))
    ELSE fetch_response_v2(answered(c, response),
             generate_command_v2("fetch", fetch_args_v2(c, objects, have), << >>),
             {objects[i] : i \in 1..Len(objects)})

\* The lines of an acknowledgments section and the packets of a packfile
\* section.
AckLines ==
    {Pkt("DATA", <<"NAK", "\n">>),
     Pkt("DATA", <<"ACK", " ", "abc123", "\n">>),
     Pkt("DATA", <<"ready", "\n">>)}

BandPackets ==
    {Pkt("DATA", <<"band1", "PACK">>),
     Pkt("DATA", <<"band1", "objects">>),
     Pkt("DATA", <<"band2", "Counting objects">>),
     Pkt("DATA", <<"band2", "INVALID">>),
     Pkt("DATA", <<"band3", "fatal">>),
     Pkt("DATA", <<"band9", "other">>),
     Pkt("DATA", << >>)}

SectionEnds == {FLUSH_PKT, DELIM_PKT}

\* A section: header, packets, and the flush or delimiter that ends it.
Sections(header, packets, most) ==
    {<<data_line(<<header>>)>> \o inner \o <<end>> :
        inner \in SeqsUpTo(packets, most), end \in SectionEnds}

\* Sections fetch_objects does not ask for, and a second acknowledgments
\* section.
UnrequestedSections ==
    {<<data_line(<<"shallow-info">>), Pkt("DATA", <<"shallow", " ", "abc123", "\n">>),
       DELIM_PKT>>,
     <<data_line(<<"wanted-refs">>), DELIM_PKT>>,
     <<data_line(<<"packfile-uris">>), DELIM_PKT>>,
     <<data_line(<<"acknowledgments">>), Pkt("DATA", <<"NAK", "\n">>), DELIM_PKT>>}

\* The answers to a version 2 fetch: an optional acknowledgments section and
\* an optional packfile section, or an unrequested section before the
\* packfile section.
ResponsesV2 ==
    {acks \o pack : acks \in {<< >>} \cup Sections("acknowledgments", AckLines, MaxAcks),
                    pack \in {<< >>} \cup Sections("packfile", BandPackets, MaxBands)}
    \cup
    {acks \o other \o <<data_line(<<"packfile">>), Pkt("DATA", <<"band1", "PACK">>),
                         FLUSH_PKT>> :
        acks \in {<< >>} \cup Sections("acknowledgments", AckLines, MaxAcks),
        other \in UnrequestedSections}

\* The answers to a version 1 fetch: ACK and NAK lines and the pack after
\* them.
ResponsesV1 ==
    {lines \o pack : lines \in SeqsUpTo(AckLines \cup {FLUSH_PKT}, MaxAcks),
                     pack \in {<< >>, <<Pkt("RAW", <<"PACK", "objects">>)>>}}

\* The object sets of a call in the orders they can be iterated in.
Wants == {<<"abc123">>, <<"abc123", "def456">>, <<"def456", "abc123">>}

Haves == {NoHave, Have(<<NULL_OBJECT_ID>>), Have(<<"abc123">>),
          Have(<<NULL_OBJECT_ID, "abc123">>), Have(<<"abc123", NULL_OBJECT_ID>>),
          Have(<<"def456", NULL_OBJECT_ID, "abc123">>)}

\* A fetch connection over http after its hello.
ReadyConnections ==
    {[NewHelloConnection("fetch", "http") EXCEPT
          !._negotiated_protocol = 2, !.last_packet = FLUSH_PKT, !.capabilities = caps] :
        caps \in {{<<"fetch">>}, {<<"fetch">>, <<"wait-for-done">>},
                  {<<"ls-refs=unborn">>,
                   <<"fetch=shallow", " ", "wait-for-done", " ", "filter">>}}}
    \cup
    {[NewHelloConnection("fetch", "http") EXCEPT
          !._negotiated_protocol = 1, !.last_packet = FLUSH_PKT, !.capabilities = caps,
          !._cached_refs = [set |-> TRUE, refs |-> << >>]] :
        caps \in {{<<"multi_ack_detailed">>}, {<<"side-band-64k">>}}}

NoFetchCall == [objects |-> << >>, have |-> NoHave, response |-> << >>]

FetchIdle ==
    /\ fconn = NewHelloConnection("fetch", "http")
    /\ fetch_call = NoFetchCall
    /\ fetched = NotFetched
    /\ fpc = "idle"

FetchInit ==
    /\ fconn \in ReadyConnections
    /\ fetch_call \in [objects : Wants, have : Haves,
                       response : IF negotiated_protocol(fconn) = 2 THEN ResponsesV2
                                  ELSE ResponsesV1]
    /\ fetched = NotFetched
    /\ fpc = "ready"

\* await connection.fetch_objects(objects, have=have, output=packfile)
FetchObjectsCall ==
    /\ fpc = "ready"
    /\ LET r == fetch_objects_packets(fconn, fetch_call.objects, fetch_call.have,
                                      fetch_call.response)
       IN  /\ fetched' = r
           /\ fconn' = r.conn
           /\ fpc' = IF r.err = "" THEN "done" ELSE "raised"
    /\ UNCHANGED fetch_call
    /\ UNCHANGED notFetch

FetchNext == FetchObjectsCall

\* =================================================================== push
\* PushConnection.push_changes packet by packet: the commands and the pack it
\* sends and what it does with the status report.  A ref name is a word.  The
\* first byte of a report packet is the word "band1", "band2" or "band3"
\* (bytes 1, 2, 3) or some other word; what follows "band1" is a packet line
\* of its own: the word "pkt" (a header that fits) and its payload, or bytes
\* that do not parse.
\* f"{change.old} {change.new} {change.ref}"
command_line(change) == <<change.old, " ", change.new, " ", change.ref>>

\* " ".join(words)
join_words(words) == IF words = << >> THEN << >> ELSE <<words[1]>> \o joined(Tail(words))

\* _push_request_v1 that selects its preferred capabilities without asking
use_capabilties_preferred(c) ==
    {"report-status", "side-band-64k", "object-format=sha1", "agent=git/2.46.00000"}

\* The capabilities _push_request_v1 selects
use_capabilties(c) ==
    {cap \in {"report-status", "side-band-64k", "object-format=sha1"} :
        <<cap>> \in c.capabilities}
    \cup {"agent=git/2.46.00000"}

\* use_capabilties in the order the set is iterated in
in_order(caps, order) == SelectSeq(order, LAMBDA cap : cap \in caps)

\* The loop of _generate_receive_commands with "first = False" outside the
\* "if first", so that a skipped delete spends it
RECURSIVE receive_packets_first_change(_, _, _, _)
receive_packets_first_change(list, supports_delete, caps, first) ==
    IF list = << >> THEN <<FLUSH_PKT>>
    ELSE (IF is_delete(list[1]) /\ ~supports_delete THEN << >>
          ELSE <<data_line(command_line(list[1])
                           \o (IF first THEN <<NUL, " ">> \o join_words(caps) ELSE << >>))>>)
         \o receive_packets_first_change(Tail(list), supports_delete, caps, FALSE)

\* PushConnection._generate_receive_commands from a value of first on
RECURSIVE receive_packets(_, _, _, _)
receive_packets(list, supports_delete, caps, first) ==
    IF list = << >> THEN <<FLUSH_PKT>>
    ELSE IF is_delete(list[1]) /\ ~supports_delete
    THEN receive_packets(Tail(list), supports_delete, caps, first)
    ELSE <<data_line(command_line(list[1])
                     \o (IF first THEN <<NUL, " ">> \o join_words(caps) ELSE << >>))>>
         \o receive_packets(Tail(list), supports_delete, caps, FALSE)

\* _generate_receive_commands that spends first on the first change of the
\* list
generate_receive_commands_first_change(list, supports_delete, caps) ==
    receive_packets_first_change(list, supports_delete, caps, TRUE)

\* PushConnection._generate_receive_commands
generate_receive_commands(list, supports_delete, caps) ==
    receive_packets(list, supports_delete, caps, TRUE)

\* The warnings of _generate_receive_commands
RECURSIVE skipped_deletes(_, _)
skipped_deletes(list, supports_delete) ==
    IF list = << >> THEN << >>
    ELSE (IF is_delete(list[1]) /\ ~supports_delete
          THEN <<[level |-> "warning", msg |-> <<"skipping delete of", list[1].ref>>]>>
          ELSE << >>)
         \o skipped_deletes(Tail(list), supports_delete)

\* packfile=None
NoPackfile == [given |-> FALSE, chunks |-> << >>]

Packfile(chunks) == [given |-> TRUE, chunks |-> chunks]

\* _send_packfile / the tail of generate_command_data: the chunks as they
\* are written
pack_bytes(packfile) ==
    IF packfile.given THEN [i \in 1..Len(packfile.chunks) |-> Pkt("RAW", <<packfile.chunks[i]>>)]
    ELSE << >>

\* What a push did: the connection after it, the exception raised ("" for
\* none), what was written to the server, and the log.
Pushed(c, err, written, log) == [conn |-> c, err |-> err, written |-> written, log |-> log]

NotPushed == Pushed(NewHelloConnection("push", "http"), "", << >>, << >>)

\* PacketLine.from_buffer(packet.data[1:]).data of a band 1 packet
inner_packet(data) ==
    IF data # << >> /\ data[1] = "pkt" THEN [ok |-> TRUE, data |-> Tail(data)]
    ELSE IF data = <<"0000">> THEN [ok |-> TRUE, data |-> << >>]
    ELSE [ok |-> FALSE, data |-> << >>]

\* The loop over _read_packets_until_flush of push_changes
RECURSIVE status_loop(_, _, _, _)
RECURSIVE status_packet(_, _, _, _)
RECURSIVE status_band1(_, _, _, _, _)
status_band1(r, inner, end, written, log) ==
    IF ~inner.ok THEN Pushed(r.conn, "ValueError", written, log)
    ELSE status_loop(r.conn, end, written,
                     Append(log, [level |-> "info", msg |-> strip(inner.data)]))

status_packet(r, end, written, log) ==
    IF r.err = "IncompleteReadError" THEN Pushed(r.conn, "ValueError", written, log)
    ELSE IF r.err # "" THEN Pushed(r.conn, r.err, written, log)
    ELSE IF r.pkt.type = "FLUSH"
    THEN Pushed([r.conn EXCEPT !.last_packet = r.pkt], "", written, log)
    ELSE IF r.pkt.type # "DATA" THEN Pushed(r.conn, "AssertionError", written, log)
    ELSE IF r.pkt.data = << >> THEN Pushed(r.conn, "IndexError", written, log)
    ELSE IF r.pkt.data[1] = "band2"
    THEN status_loop(r.conn, end, written,
                     Append(log, [level |-> "info", msg |-> r.pkt.data]))
    ELSE IF r.pkt.data[1] = "band1"
    THEN status_band1(r, inner_packet(Tail(r.pkt.data)), end, written, log)
    ELSE status_loop(r.conn, end, written, log)

status_loop(c, end, written, log) ==
    IF at_eof(c) THEN Pushed(c, "", written, log)
    ELSE status_packet(read_packet_stream(c, end), end, written, log)

\* push_changes after _send_commands
report_status(c, caps, end, written, log) ==
    IF "report-status" \in caps THEN status_loop(c, end, written, log)
    ELSE Pushed(c, "", written, log)

\* _send_commands: PushConnection's writes the packets and the pack to the
\* service; HTTPSmartPushConnection's posts them and checks the status.
send_commands(c, packets, packfile, status) ==
    IF c.substrate = "http" /\ status # 200 THEN "ConnectionException: Request failed"
    ELSE ""

\* PushConnection.push_changes(changes, packfile) on a ready connection;
\* order is the order use_capabilties is iterated in, status and response
\* are the server's answer, end is how the stream of the service ends behind
\* the response.
push_changes_sent(c, list, packfile, order) ==
    generate_receive_commands(list, <<"delete-refs">> \in c.capabilities,
                              in_order(use_capabilties(c), order))
    \o pack_bytes(packfile)

push_changes_packets(c, list, packfile, order, status, response, end) ==
    IF send_commands(c, << >>, packfile, status) # ""
    THEN Pushed(c, send_commands(c, << >>, packfile, status),
                push_changes_sent(c, list, packfile, order),
                skipped_deletes(list, <<"delete-refs">> \in c.capabilities))
    ELSE report_status([answered(c, response) EXCEPT !.eof = (end = "eof")],
                       use_capabilties(c), end,
                       push_changes_sent(c, list, packfile, order),
                       skipped_deletes(list, <<"delete-refs">> \in c.capabilities))

\* The changes of a call: a create, an update and a delete of three refs, in
\* any order.
PushedChanges ==
    {RefChange("refs/heads/new", NULL_OBJECT_ID, "abc123"),
     RefChange("refs/heads/main", "abc123", "def456"),
     RefChange("refs/heads/old", "abc123", NULL_OBJECT_ID)}

ChangeLists ==
    {l \in SeqsUpTo(PushedChanges, MaxChanges) :
        \A i, j \in 1..Len(l) : i # j => l[i] # l[j]}

Packfiles == {NoPackfile, Packfile(<<"PACK", "objects">>)}

\* The packets of a status report.
StatusPackets ==
    {Pkt("DATA", <<"band1", "pkt", "unpack", " ", "ok", "\n">>),
     Pkt("DATA", <<"band1", "00">>),
     Pkt("DATA", <<"band2", "Resolving deltas">>),
     Pkt("DATA", <<"band3", "fatal">>),
     Pkt("DATA", <<"unpack", " ", "ok", "\n">>),
     FLUSH_PKT}

CapOrders ==
    {<<"agent=git/2.46.00000", "object-format=sha1", "report-status", "side-band-64k">>,
     <<"side-band-64k", "report-status", "object-format=sha1", "agent=git/2.46.00000">>}

\* A push connection after its hello.
ReadyPushConnections ==
    {[NewHelloConnection("push", substrate) EXCEPT
          !._negotiated_protocol = IF substrate = "http" THEN 1 ELSE NoProtocol,
          !.last_packet = FLUSH_PKT, !.capabilities = caps] :
        substrate \in {"file", "http"},
        caps \in {{<<"report-status">>, <<"delete-refs">>, <<"side-band-64k">>},
                  {<<"report-status">>, <<"side-band-64k">>},
                  {<<"delete-refs">>, <<"object-format=sha1">>}}}

NoPushCall ==
    [changes |-> << >>, packfile |-> NoPackfile, order |-> << >>, status |-> 0,
     response |-> << >>, end |-> "eof"]

PushIdle ==
    /\ pconn = NewHelloConnection("push", "http")
    /\ push_call = NoPushCall
    /\ pushed = NotPushed
    /\ ppc = "idle"

PushInit ==
    /\ pconn \in ReadyPushConnections
    /\ push_call \in [changes : ChangeLists, packfile : Packfiles, order : CapOrders,
                      status : IF pconn.substrate = "http" THEN {200, 500} ELSE {0},
                      response : SeqsUpTo(StatusPackets, MaxStatus),
                      end : IF pconn.substrate = "http" THEN {"eof"} ELSE StreamEnds]
    /\ pushed = NotPushed
    /\ ppc = "ready"

\* await connection.push_changes(changes, packfile)
PushChangesCall ==
    /\ ppc = "ready"
    /\ pushed' = push_changes_packets(pconn, push_call.changes, push_call.packfile,
                                      push_call.order, push_call.status,
                                      push_call.response, push_call.end)
    /\ pconn' = pushed'.conn
    /\ ppc' = IF pushed'.err = "" THEN "done"
              ELSE IF pushed'.err = "blocked" THEN "blocked"
              ELSE "raised"
    /\ UNCHANGED push_call
    /\ UNCHANGED notPush

PushNext == PushChangesCall

\* ============================================================ v2 commands
\* FetchConnection._send_command_v2 on the commands and arguments ls_refs
\* and fetch_objects use, and on keyword capabilities.
CommandNames == {"ls-refs", "fetch"}

CommandArgs ==
    {<<"ref-prefix", " ", "refs/heads/">>, <<"want", " ", "abc123">>,
     <<"have", " ", "def456">>, <<"done">>}

\* **capabilities: keyword arguments, each name at most once
CommandCapabilities ==
    {caps \in SeqsUpTo({[key |-> "agent", value |-> "git/2.46"],
                        [key |-> "object_format", value |-> "sha1"],
                        [key |-> "server_option", value |-> ""]}, MaxCapabilities) :
        \A i, j \in 1..Len(caps) : i # j => caps[i].key # caps[j].key}

NoCommand == [name |-> "", args |-> << >>, capabilities |-> << >>]

CommandIdle ==
    /\ command_call = NoCommand
    /\ command_packets = << >>
    /\ gpc = "idle"

CommandInit ==
    /\ command_call \in [name : CommandNames, args : SeqsUpTo(CommandArgs, MaxArgs),
                    capabilities : CommandCapabilities]
    /\ command_packets = << >>
    /\ gpc = "new"

\* await self._send_command_v2(command, args, **capabilities): the packets
\* _send_packet_transaction writes
SendCommandV2 ==
    /\ gpc = "new"
    /\ command_packets' = generate_command_v2(command_call.name, command_call.args,
                                              command_call.capabilities)
    /\ gpc' = "sent"
    /\ UNCHANGED command_call
    /\ UNCHANGED notCommand

CommandNext == SendCommandV2

\* =========================================================== transactions
\* _send_packet_transaction and _send_commands on the pipe of a service and
\* over HTTP.  The marker of a data packet is the word "pkt"; a POST body
\* and the bytes written to the pipe are sequences of such words.
\* packet.marker_bytes
marker_word(pkt) ==
    IF pkt.type = "FLUSH" THEN <<"0000">>
    ELSE IF pkt.type = "DELIMITER" THEN <<"0001">>
    ELSE <<"pkt">>

\* BaseConnection._write_packet: the marker, then the data
write_packet(writer, pkt) == (writer \o marker_word(pkt)) \o pkt.data

\* "async for packet in packets: await self._write_packet(packet)"
RECURSIVE write_packets(_, _)
write_packets(writer, packets) ==
    IF packets = << >> THEN writer
    ELSE write_packets(write_packet(writer, packets[1]), Tail(packets))

\* PushConnection._send_packfile: the chunks of the pack file
RECURSIVE send_packfile(_, _)
send_packfile(writer, chunks) ==
    IF chunks = << >> THEN writer
    ELSE send_packfile(Append(writer, chunks[1]), Tail(chunks))

\* generate_command_data that yields the data of the packets without their
\* markers
RECURSIVE generate_command_data_unmarked(_, _)
generate_command_data_unmarked(packets, packfile) ==
    IF packets # << >>
    THEN packets[1].data \o generate_command_data_unmarked(Tail(packets), packfile)
    ELSE IF packfile.given THEN packfile.chunks
    ELSE << >>

\* generate_command_data of the two HTTP connections: what the body of the
\* POST is made of ("yield pkt.marker_bytes; yield pkt.data", then the
\* chunks of the pack file)
RECURSIVE generate_command_data(_, _)
generate_command_data(packets, packfile) ==
    IF packets # << >>
    THEN (marker_word(packets[1]) \o packets[1].data)
         \o generate_command_data(Tail(packets), packfile)
    ELSE IF packfile.given THEN packfile.chunks
    ELSE << >>

\* What a send did: the connection, the exception raised, the bodies posted
\* and the bytes on the pipe.
Sent(c, err, bodies, writer) == [conn |-> c, err |-> err, posts |-> bodies, writer |-> writer]

\* The session.post of the HTTP connections and what follows it
http_post(c, bodies, writer, data, status, response) ==
    IF status # 200
    THEN Sent(c, "ConnectionException", Append(bodies, data), writer)
    ELSE Sent([c EXCEPT !.reader = response, !.eof = TRUE], "", Append(bodies, data), writer)

\* The service answers on its pipe
pipe_answer(c, response) == [c EXCEPT !.reader = @ \o response]

\* _send_packet_transaction of BaseConnection and of HTTPSmartFetchConnection
send_packet_transaction(c, bodies, writer, packets, status, response) ==
    IF c.substrate = "http"
    THEN http_post(c, bodies, writer, generate_command_data(packets, NoPackfile),
                   status, response)
    ELSE Sent(pipe_answer(c, response), "", bodies, write_packets(writer, packets))

\* _send_commands of PushConnection and of HTTPSmartPushConnection
send_commands_bytes(c, bodies, writer, packets, packfile, status, response) ==
    IF c.substrate = "http"
    THEN http_post(c, bodies, writer, generate_command_data(packets, packfile),
                   status, response)
    ELSE Sent(pipe_answer(c, response), "", bodies,
              IF packfile.given
              THEN send_packfile(write_packets(writer, packets), packfile.chunks)
              ELSE write_packets(writer, packets))

\* The packets of the commands that are sent.
FetchTransactions ==
    {generate_command_v2("ls-refs", <<<<"peel">>, <<"ref-prefix", " ", "refs/heads/">>>>,
                         << >>),
     generate_command_v2("fetch", <<<<"want", " ", "abc123">>, <<"done">>>>, << >>),
     <<data_line(<<"want", " ", "abc123", " ", "agent=kalandra">>), FLUSH_PKT,
       data_line(<<"done">>)>>}

PushTransactions ==
    {generate_receive_commands(list, TRUE, <<"report-status", "agent=git/2.46.00000">>) :
        list \in {l \in ChangeLists : Len(l) <= 2}}

\* What the connection still holds of an earlier answer, and the answers.
Leftovers == {<< >>, <<Pkt("DATA", <<"stale", "\n">>)>>, <<FLUSH_PKT>>}

Answers ==
    {<< >>,
     <<Pkt("DATA", <<"NAK", "\n">>), Pkt("RAW", <<"PACK">>)>>,
     <<Pkt("DATA", <<"packfile", "\n">>), Pkt("DATA", <<"band1", "PACK">>), FLUSH_PKT>>}

Transactions ==
    [kind : {"fetch"}, packets : FetchTransactions, packfile : {NoPackfile},
     status : {200, 403}, response : Answers, leftover : Leftovers,
     substrate : {"file", "ssh", "http"}]
    \cup
    [kind : {"push"}, packets : PushTransactions, packfile : Packfiles,
     status : {200, 403}, response : Answers, leftover : Leftovers,
     substrate : {"file", "ssh", "http"}]

NoTransaction ==
    [kind |-> "fetch", packets |-> << >>, packfile |-> NoPackfile, status |-> 0,
     response |-> << >>, leftover |-> << >>, substrate |-> "http"]

SendIdle ==
    /\ tconn = NewHelloConnection("fetch", "http")
    /\ transaction = NoTransaction
    /\ posts = << >>
    /\ written_bytes = << >>
    /\ send_raised = ""
    /\ packets_read = << >>
    /\ tpc = "idle"

\* A ready connection; over HTTP the body of the earlier answer ends after
\* what is left of it.
SendInit ==
    /\ transaction \in {t \in Transactions : t.substrate = "http" \/ t.status = 200}
    /\ tconn = [NewHelloConnection(transaction.kind, transaction.substrate) EXCEPT
                   !._negotiated_protocol = 1, !.last_packet = FLUSH_PKT,
                   !.reader = transaction.leftover,
                   !.eof = (transaction.substrate = "http")]
    /\ posts = << >>
    /\ written_bytes = << >>
    /\ send_raised = ""
    /\ packets_read = << >>
    /\ tpc = "ready"

\* await self._send_packet_transaction(packets)
SendPacketTransaction ==
    /\ tpc = "ready"
    /\ transaction.kind = "fetch"
    /\ LET r == send_packet_transaction(tconn, posts, written_bytes, transaction.packets,
                                        transaction.status, transaction.response)
       IN  /\ tconn' = r.conn
           /\ posts' = r.posts
           /\ written_bytes' = r.writer
           /\ send_raised' = r.err
           /\ tpc' = IF r.err = "" THEN "sent" ELSE "raised"
    /\ UNCHANGED <<transaction, packets_read>>
    /\ UNCHANGED notSend

\* await self._send_commands(packets, packfile)
SendCommands ==
    /\ tpc = "ready"
    /\ transaction.kind = "push"
    /\ LET r == send_commands_bytes(tconn, posts, written_bytes, transaction.packets,
                                    transaction.packfile, transaction.status,
                                    transaction.response)
       IN  /\ tconn' = r.conn
           /\ posts' = r.posts
           /\ written_bytes' = r.writer
           /\ send_raised' = r.err
           /\ tpc' = IF r.err = "" THEN "sent" ELSE "raised"
    /\ UNCHANGED <<transaction, packets_read>>
    /\ UNCHANGED notSend

\* await self._read_packet() after the send, while the reader has packets
ReadAfterSend ==
    /\ tpc = "sent"
    /\ tconn.reader # << >>
    /\ tconn.reader[1].type # "RAW"
    /\ LET r == read_packet(tconn)
       IN  /\ tconn' = r.conn
           /\ packets_read' = Append(packets_read, r.pkt)
    /\ UNCHANGED <<transaction, posts, written_bytes, send_raised, tpc>>
    /\ UNCHANGED notSend

SendNext == SendPacketTransaction \/ SendCommands \/ ReadAfterSend

\* ========================================================= section reader
\* BaseConnection._read_packets_until_flush driven to its end.  The stream
\* holds packets and, as its last item, possibly the first bytes of a packet
\* ("PARTIAL"); it ends with an EOF that the reader has already been fed
\* when its buffer runs empty ("eof"), with an EOF that arrives only while a
\* read is waiting ("late"), or it stays open ("open").
\* What the reader did: the connection, the exception raised, the packets
\* yielded.
SectionRead(c, err, yielded) == [conn |-> c, err |-> err, yielded |-> yielded]

\* The body of the loop of _read_packets_until_flush after _read_packet
RECURSIVE read_packets_until_flush(_, _, _)
until_flush_packet(r, end, yielded) ==
    IF r.err = "IncompleteReadError" THEN SectionRead(r.conn, "ValueError", yielded)
    ELSE IF r.err # "" THEN SectionRead(r.conn, r.err, yielded)
    ELSE IF r.pkt.type = "FLUSH"
    THEN SectionRead([r.conn EXCEPT !.last_packet = r.pkt], "", yielded)
    ELSE read_packets_until_flush(r.conn, end, Append(yielded, r.pkt))

\* BaseConnection._read_packets_until_flush, iterated to its end
read_packets_until_flush(c, end, yielded) ==
    IF at_eof(c) THEN SectionRead(c, "", yielded)
    ELSE until_flush_packet(read_packet_stream(c, end), end, yielded)

StreamPackets ==
    {Pkt("DATA", <<"agent=git/2.46", "\n">>), Pkt("DATA", <<"fetch", "\n">>),
     FLUSH_PKT, DELIM_PKT}

\* What a stream holds: packets, and possibly the start of one more.
Streams ==
    {packets \o rest : packets \in SeqsUpTo(StreamPackets, MaxHello),
                       rest \in {<< >>, <<Pkt("PARTIAL", <<"00">>)>>}}

NotRead == SectionRead(NewHelloConnection("fetch", "file"), "", << >>)

FlushIdle ==
    /\ uconn = NewHelloConnection("fetch", "file")
    /\ stream_end = "open"
    /\ section_read = NotRead
    /\ section_pc = "idle"

\* A connection whose last section ended with a DELIMITER.
FlushInit ==
    /\ stream_end \in StreamEnds
    /\ \E stream \in Streams :
          uconn = [NewHelloConnection("fetch", "file") EXCEPT
                      !.reader = stream, !.eof = (stream_end = "eof"),
                      !.last_packet = DELIM_PKT]
    /\ section_read = NotRead
    /\ section_pc = "ready"

\* async for packet in self._read_packets_until_flush()
ReadUntilFlush ==
    /\ section_pc = "ready"
    /\ section_read' = read_packets_until_flush(uconn, stream_end, << >>)
    /\ section_pc' = IF section_read'.err = "" THEN "returned"
              ELSE IF section_read'.err = "blocked" THEN "blocked"
              ELSE "raised"
    /\ UNCHANGED <<uconn, stream_end>>
    /\ UNCHANGED notFlush

FlushNext == ReadUntilFlush

\* ============================================================== lifecycle
\* __aenter__ and __aexit__ with the substrate under them, step by step, and
\* the service acting on its own: the child of a file connection exits, its
\* stderr pipe closes, the task that drains stderr finishes, the service
\* stops taking writes.
LifeSubstrates == {"file", "ssh", "http"}

\* How the open goes: "ok", the service cannot be started ("spawn"), the
\* hello request is refused or has the wrong content type (HTTP), the
\* advertisement is not the protocol or ends early.
HelloOutcomes == {"ok", "spawn", "status", "content-type", "violation", "eof"}

\* The exception of a write to a service that is gone: asyncio's drain on a
\* pipe, asyncssh's write on a channel.
WriteErrors(substrate) ==
    IF substrate = "file" THEN {"ConnectionResetError"}
    ELSE {"ConnectionResetError", "BrokenPipeError"}

\* "except ConnectionResetError" of PushConnection.__aexit__; FetchConnection's
\* has no handler
aexit_catches(kind, e) == kind = "push" /\ e = "ConnectionResetError"

\* Where __aexit__ goes after "await self._write_packet(PacketLine.FLUSH)"
\* raised e ("" for a write that went through)
aexit_after_write(kind, e) ==
    IF e = "" \/ aexit_catches(kind, e) THEN "closing" ELSE "close_raised"

\* "self._err_task.cancel(); await self._err_task": awaiting a task that
\* was cancelled while it read raises CancelledError in the awaiter
await_cancelled(task) == IF task = "reading" THEN "CancelledError" ELSE ""

LifeIdle ==
    /\ lsubstrate = "http" /\ lkind = "fetch" /\ hello_outcome = "ok"
    /\ peer = "open" /\ handle = "none" /\ child = "none" /\ terminated = FALSE
    /\ stderr_pipe = "none" /\ err_task = "none" /\ life_raised = "" /\ lpc = "idle"

\* A connection object before "async with".
LifeInit ==
    /\ lsubstrate \in LifeSubstrates
    /\ lkind \in {"fetch", "push"}
    /\ hello_outcome \in {o \in HelloOutcomes :
                            o \in {"status", "content-type"} => lsubstrate = "http"}
    /\ peer = "open" /\ handle = "none" /\ child = "none" /\ terminated = FALSE
    /\ stderr_pipe = "none" /\ err_task = "none" /\ life_raised = "" /\ lpc = "new"

\* self.reader, self.writer = await self._open_*_service_connection()
OpenServiceConnection ==
    /\ lpc = "new"
    /\ IF hello_outcome = "spawn" /\ lsubstrate # "http"
       THEN /\ handle' = (IF lsubstrate = "ssh" THEN "released" ELSE "none")
            /\ life_raised' = "OSError"
            /\ lpc' = "failed"
            /\ UNCHANGED <<child, stderr_pipe, err_task>>
       ELSE /\ handle' = "held"
            /\ child' = (IF lsubstrate = "file" THEN "running" ELSE "none")
            /\ stderr_pipe' = (IF lsubstrate = "file" THEN "open" ELSE "none")
            /\ err_task' = (IF lsubstrate = "file" THEN "reading" ELSE "none")
            /\ IF lsubstrate = "http" /\ hello_outcome \in {"spawn", "status", "content-type"}
               THEN /\ life_raised' = "ConnectionException"
                    /\ lpc' = "failed"
               ELSE /\ life_raised' = ""
                    /\ lpc' = "hello"
    /\ UNCHANGED <<lsubstrate, lkind, hello_outcome, peer, terminated>>
    /\ UNCHANGED notLife

\* The hello of __aenter__ after the service connection is open
ProcessHello ==
    /\ lpc = "hello"
    /\ IF hello_outcome = "ok"
       THEN /\ lpc' = "ready"
            /\ UNCHANGED <<handle, life_raised>>
       ELSE /\ lpc' = "failed"
            /\ life_raised' = "ValueError"
            /\ UNCHANGED handle
    /\ UNCHANGED <<lsubstrate, lkind, hello_outcome, peer, child, terminated, stderr_pipe,
                   err_task>>
    /\ UNCHANGED notLife

\* The service stops taking writes.
PeerGoes ==
    /\ lpc = "ready"
    /\ lsubstrate # "http"
    /\ peer = "open"
    /\ peer' = "gone"
    /\ UNCHANGED <<lsubstrate, lkind, hello_outcome, handle, child, terminated, stderr_pipe,
                   err_task, life_raised, lpc>>
    /\ UNCHANGED notLife

\* The child exits and the event loop sets process.returncode.
ChildExits ==
    /\ lpc \in {"ready", "closing", "wait", "waiting"}
    /\ child = "running"
    /\ child' = "exited"
    /\ UNCHANGED <<lsubstrate, lkind, hello_outcome, peer, handle, terminated, stderr_pipe,
                   err_task, life_raised, lpc>>
    /\ UNCHANGED notLife

\* The last holder of the stderr pipe closes it.
StderrCloses ==
    /\ lpc \in {"ready", "closing", "wait", "waiting"}
    /\ child = "exited"
    /\ stderr_pipe = "open"
    /\ stderr_pipe' = "eof"
    /\ UNCHANGED <<lsubstrate, lkind, hello_outcome, peer, handle, child, terminated,
                   err_task, life_raised, lpc>>
    /\ UNCHANGED notLife

\* log_error_messages reads the EOF and returns.
ErrTaskFinishes ==
    /\ err_task = "reading"
    /\ stderr_pipe = "eof"
    /\ err_task' = "finished"
    /\ UNCHANGED <<lsubstrate, lkind, hello_outcome, peer, handle, child, terminated,
                   stderr_pipe, life_raised, lpc>>
    /\ UNCHANGED notLife

\* __aexit__ up to _close_service_connection: the FLUSH and the EOF written
\* to the service
AExitWriter ==
    /\ lpc = "ready"
    /\ \E e \in (IF lsubstrate = "http" \/ peer = "open" THEN {""}
                 ELSE WriteErrors(lsubstrate)) :
          /\ lpc' = aexit_after_write(lkind, e)
          /\ life_raised' = (IF aexit_after_write(lkind, e) = "closing" THEN "" ELSE e)
    /\ UNCHANGED <<lsubstrate, lkind, hello_outcome, peer, handle, child, terminated,
                   stderr_pipe, err_task>>
    /\ UNCHANGED notLife

\* _close_service_connection of the HTTP and SSH connections
CloseSession ==
    /\ lpc = "closing"
    /\ lsubstrate # "file"
    /\ handle' = "released"
    /\ lpc' = "closed"
    /\ UNCHANGED <<lsubstrate, lkind, hello_outcome, peer, child, terminated, stderr_pipe,
                   err_task, life_raised>>
    /\ UNCHANGED notLife

\* FileConnection._close_service_connection: "if self.process.returncode is
\* None: self.process.terminate()"
CloseTerminate ==
    /\ lpc = "closing"
    /\ lsubstrate = "file"
    /\ terminated' = (child = "running")
    /\ lpc' = "wait"
    /\ UNCHANGED <<lsubstrate, lkind, hello_outcome, peer, handle, child, stderr_pipe,
                   err_task, life_raised>>
    /\ UNCHANGED notLife

\* "await self.process.wait()": it returns at once when returncode is set
CloseWait ==
    /\ lpc = "wait"
    /\ lpc' = (IF child = "exited" THEN "cancel" ELSE "waiting")
    /\ UNCHANGED <<lsubstrate, lkind, hello_outcome, peer, handle, child, terminated,
                   stderr_pipe, err_task, life_raised>>
    /\ UNCHANGED notLife

\* The waiter of process.wait() is woken when the child has exited and its
\* pipes are closed; the drain task was woken by the EOF before it.
CloseWake ==
    /\ lpc = "waiting"
    /\ child = "exited"
    /\ stderr_pipe = "eof"
    /\ err_task = "finished"
    /\ lpc' = "cancel"
    /\ UNCHANGED <<lsubstrate, lkind, hello_outcome, peer, handle, child, terminated,
                   stderr_pipe, err_task, life_raised>>
    /\ UNCHANGED notLife

\* "self._err_task.cancel(); await self._err_task"
CloseCancel ==
    /\ lpc = "cancel"
    /\ err_task' = (IF err_task = "reading" THEN "cancelled" ELSE err_task)
    /\ life_raised' = await_cancelled(err_task)
    /\ lpc' = (IF await_cancelled(err_task) = "" THEN "closed" ELSE "close_raised")
    /\ handle' = "released"
    /\ UNCHANGED <<lsubstrate, lkind, hello_outcome, peer, child, terminated, stderr_pipe>>
    /\ UNCHANGED notLife

LifeNext ==
    \/ OpenServiceConnection \/ ProcessHello \/ PeerGoes \/ ChildExits \/ StderrCloses
    \/ ErrTaskFinishes \/ AExitWriter \/ CloseSession \/ CloseTerminate \/ CloseWait
    \/ CloseWake \/ CloseCancel

\* ==================================================================== ssh
\* The remote service of an SSH connection writes packets to its stdout and
\* text to its stderr, and then goes; the client learns of the exit status
\* and of the end of stdout by two messages of the channel, in either order.
\* The reader holds what the remote wrote and the client has not read.
MaxRemote == 2

\* The exit statuses, as text; "None" until the status has come.
ExitStatuses == {"0", "128"}

StderrTexts == {<< >>, <<"fatal: the remote end hung up unexpectedly">>}

\* A complete packet waits in the push-back queue or in the buffer.
packet_pending(c) ==
    \/ c._shifted_packets # << >>
    \/ c.reader # << >> /\ c.reader[1].type # "PARTIAL"

\* The error text of line 69
server_closed_connection(errors) == <<"Server closed connection: ">> \o errors

\* SSHConnection._read_packet: the test of the exit status, made as the call
\* starts and not again when a waiting read goes on, then the read of
\* BaseConnection with IncompleteReadError turned into ConnectionException
ssh_read_packet(c, status, waiting) ==
    IF ~waiting /\ status # "None" THEN Failed(c, "EOFError")
    ELSE IF packet_pending(c) THEN read_packet(c)
    ELSE IF c.eof THEN Failed([c EXCEPT !.reader = << >>], "ConnectionException")
    ELSE Failed(c, "blocked")

SshIdle ==
    /\ sconn = NewHelloConnection("fetch", "ssh")
    /\ remote_pc = "idle"
    /\ exit_status = "None"
    /\ stderr_text = << >>
    /\ remote_wrote = << >>
    /\ ssh_delivered = << >>
    /\ ssh_raised = ""
    /\ ssh_message = << >>
    /\ ssh_pc = "idle"

\* After _open_service_connection: the process runs and nothing was read.
SshInit ==
    /\ sconn = [NewHelloConnection("fetch", "ssh") EXCEPT !.reader = << >>, !.eof = FALSE]
    /\ remote_pc = "running"
    /\ exit_status = "None"
    /\ stderr_text = << >>
    /\ remote_wrote = << >>
    /\ ssh_delivered = << >>
    /\ ssh_raised = ""
    /\ ssh_message = << >>
    /\ ssh_pc = "ready"

\* The remote writes one packet.
RemoteWrites ==
    /\ remote_pc = "running"
    /\ Len(remote_wrote) < MaxRemote
    /\ \E pkt \in StreamPackets :
          /\ sconn' = [sconn EXCEPT !.reader = Append(@, pkt)]
          /\ remote_wrote' = Append(remote_wrote, pkt)
    /\ UNCHANGED <<remote_pc, exit_status, stderr_text, ssh_delivered, ssh_raised,
                   ssh_message, ssh_pc>>
    /\ UNCHANGED notSsh

\* The remote goes, after whole packets or inside one, with or without a
\* message on stderr.
RemoteGoes ==
    /\ remote_pc = "running"
    /\ remote_pc' = "gone"
    /\ stderr_text' \in StderrTexts
    /\ \E rest \in {<< >>, <<Pkt("PARTIAL", <<"00">>)>>} :
          sconn' = [sconn EXCEPT !.reader = @ \o rest]
    /\ UNCHANGED <<exit_status, remote_wrote, ssh_delivered, ssh_raised, ssh_message,
                   ssh_pc>>
    /\ UNCHANGED notSsh

\* The exit status of the remote reaches the channel.
ExitStatusArrives ==
    /\ remote_pc = "gone"
    /\ exit_status = "None"
    /\ exit_status' \in ExitStatuses
    /\ UNCHANGED <<sconn, remote_pc, stderr_text, remote_wrote, ssh_delivered,
                   ssh_raised, ssh_message, ssh_pc>>
    /\ UNCHANGED notSsh

\* The end of the remote's stdout reaches the reader.
EofArrives ==
    /\ remote_pc = "gone"
    /\ ~sconn.eof
    /\ sconn' = [sconn EXCEPT !.eof = TRUE]
    /\ UNCHANGED <<remote_pc, exit_status, stderr_text, remote_wrote, ssh_delivered,
                   ssh_raised, ssh_message, ssh_pc>>
    /\ UNCHANGED notSsh

\* What a read that ended does to the client.
ssh_read_ends(r) ==
    /\ sconn' = r.conn
    /\ ssh_delivered' = IF r.err = "" THEN Append(ssh_delivered, r.pkt) ELSE ssh_delivered
    /\ ssh_raised' = IF r.err = "blocked" THEN "" ELSE r.err
    /\ ssh_message' = IF r.err = "ConnectionException"
                      THEN server_closed_connection(stderr_text)
                      ELSE IF r.err = "EOFError" THEN <<"Process has exited">>
                      ELSE << >>
    /\ ssh_pc' = IF r.err = "" THEN "ready"
                 ELSE IF r.err = "blocked" THEN "waiting"
                 ELSE "raised"

\* await self._read_packet(), up to its return, its exception or the point
\* where readexactly waits for bytes
SshReadPacket ==
    /\ ssh_pc = "ready"
    /\ ssh_read_ends(ssh_read_packet(sconn, exit_status, FALSE))
    /\ UNCHANGED <<remote_pc, exit_status, stderr_text, remote_wrote>>
    /\ UNCHANGED notSsh

\* readexactly wakes: the bytes, or the end of the stream, have come.
SshReadWakes ==
    /\ ssh_pc = "waiting"
    /\ packet_pending(sconn) \/ sconn.eof
    /\ ssh_read_ends(ssh_read_packet(sconn, exit_status, TRUE))
    /\ UNCHANGED <<remote_pc, exit_status, stderr_text, remote_wrote>>
    /\ UNCHANGED notSsh

SshNext ==
    \/ RemoteWrites
    \/ RemoteGoes
    \/ ExitStatusArrives
    \/ EofArrives
    \/ SshReadPacket
    \/ SshReadWakes

\* ========================================================= specifications
InitCodec == CodecInit /\ MirrorIdle /\ ConnIdle /\ JobIdle /\ UrlIdle /\ HelloIdle /\ FetchIdle /\ PushIdle /\ CommandIdle /\ SendIdle /\ FlushIdle /\ LifeIdle /\ SshIdle

SpecCodec == InitCodec /\ [][CodecNext]_vars

InitMirror == MirrorInit /\ CodecIdle /\ ConnIdle /\ JobIdle /\ UrlIdle /\ HelloIdle /\ FetchIdle /\ PushIdle /\ CommandIdle /\ SendIdle /\ FlushIdle /\ LifeIdle /\ SshIdle

SpecMirror == InitMirror /\ [][MirrorNext]_vars

InitConn == ConnInit /\ CodecIdle /\ MirrorIdle /\ JobIdle /\ UrlIdle /\ HelloIdle /\ FetchIdle /\ PushIdle /\ CommandIdle /\ SendIdle /\ FlushIdle /\ LifeIdle /\ SshIdle

SpecConn == InitConn /\ [][ConnNext]_vars

InitJob == JobInit /\ CodecIdle /\ MirrorIdle /\ ConnIdle /\ UrlIdle /\ HelloIdle /\ FetchIdle /\ PushIdle /\ CommandIdle /\ SendIdle /\ FlushIdle /\ LifeIdle /\ SshIdle

SpecJob == InitJob /\ [][JobNext]_vars

InitUrl == UrlInit /\ CodecIdle /\ MirrorIdle /\ ConnIdle /\ JobIdle /\ HelloIdle /\ FetchIdle /\ PushIdle /\ CommandIdle /\ SendIdle /\ FlushIdle /\ LifeIdle /\ SshIdle

SpecUrl == InitUrl /\ [][UrlNext]_vars

InitHello == HelloInit /\ CodecIdle /\ MirrorIdle /\ ConnIdle /\ JobIdle /\ UrlIdle /\ FetchIdle /\ PushIdle /\ CommandIdle /\ SendIdle /\ FlushIdle /\ LifeIdle /\ SshIdle

SpecHello == InitHello /\ [][HelloNext]_vars

InitFetch ==
    FetchInit /\ CodecIdle /\ MirrorIdle /\ ConnIdle /\ JobIdle /\ UrlIdle /\ HelloIdle
    /\ PushIdle /\ CommandIdle
    /\ SendIdle
    /\ FlushIdle
    /\ LifeIdle
    /\ SshIdle

SpecFetch == InitFetch /\ [][FetchNext]_vars

InitPush ==
    PushInit /\ CodecIdle /\ MirrorIdle /\ ConnIdle /\ JobIdle /\ UrlIdle /\ HelloIdle
    /\ FetchIdle /\ CommandIdle
    /\ SendIdle
    /\ FlushIdle
    /\ LifeIdle
    /\ SshIdle

SpecPush == InitPush /\ [][PushNext]_vars

InitCommand ==
    CommandInit /\ CodecIdle /\ MirrorIdle /\ ConnIdle /\ JobIdle /\ UrlIdle /\ HelloIdle
    /\ FetchIdle /\ PushIdle
    /\ SendIdle
    /\ FlushIdle
    /\ LifeIdle
    /\ SshIdle

SpecCommand == InitCommand /\ [][CommandNext]_vars

InitSend ==
    SendInit /\ CodecIdle /\ CommandIdle /\ ConnIdle /\ FetchIdle /\ HelloIdle /\ JobIdle
    /\ MirrorIdle /\ PushIdle /\ UrlIdle
    /\ FlushIdle
    /\ LifeIdle
    /\ SshIdle

SpecSend == InitSend /\ [][SendNext]_vars

InitFlush ==
    FlushInit /\ CodecIdle /\ CommandIdle /\ ConnIdle /\ FetchIdle /\ HelloIdle /\ JobIdle
    /\ MirrorIdle /\ PushIdle /\ SendIdle /\ UrlIdle
    /\ LifeIdle
    /\ SshIdle

SpecFlush == InitFlush /\ [][FlushNext]_vars

InitLife ==
    LifeInit /\ CodecIdle /\ CommandIdle /\ ConnIdle /\ FetchIdle /\ FlushIdle /\ HelloIdle
    /\ JobIdle /\ MirrorIdle /\ PushIdle /\ SendIdle /\ UrlIdle
    /\ SshIdle

SpecLife == InitLife /\ [][LifeNext]_vars

InitSsh ==
    SshInit /\ CodecIdle /\ CommandIdle /\ ConnIdle /\ FetchIdle /\ FlushIdle /\ HelloIdle
    /\ JobIdle /\ LifeIdle /\ MirrorIdle /\ PushIdle /\ SendIdle /\ UrlIdle

SpecSsh == InitSsh /\ [][SshNext]_vars

\* ================================================================== claims
Header(b) == Explicit(BTake(b, 4))

\* C1: a DATA packet of at most 65,515 payload bytes, written as its
\* marker_bytes header followed by the payload, parses back (from_buffer, and
\* _read_packet) to a DATA packet with the same data and length = len(payload),
\* and the whole encoding is consumed.
C1_RoundTrip ==
    (cpc \in {"parsed", "read"} /\ input.kind = "data" /\ BLen(input.bytes) <= 65515)
    => /\ parsed = Ok(PacketLine(BLen(input.bytes), input.bytes, "DATA"))
       /\ BLen(wire) = 4 + parsed.pkt.length
       /\ cpc = "read" =>
            /\ readres.ok
            /\ readres.pkt = parsed.pkt
            /\ readres.rest = NoBytes

C1_Witness ==
    /\ cpc = "read"
    /\ input.kind = "data"
    /\ BLen(input.bytes) = 65515
    /\ Len(input.bytes) = 2
    /\ parsed.ok
    /\ parsed.pkt.data = input.bytes

\* C2: the 4-byte encoding of a marker (0000 FLUSH, 0001 DELIMITER, 0002
\* RESPONSE_END, 0003 UNKNOWN) parses to a packet of that type with empty data
\* and length 0, exactly 4 bytes are consumed, and the packet re-encodes to the
\* same 4 bytes.
C2_Markers ==
    \A m \in MarkerTypes :
        (/\ cpc \in {"parsed", "read"}
         /\ BLen(wire) >= 4
         /\ Header(wire) = Format04x(PacketLineTypeValue[m]))
        => /\ parsed = Ok(PacketLine(0, NoBytes, m))
           /\ Explicit(marker_bytes(parsed.pkt)) = Header(wire)
           /\ cpc = "read" =>
                /\ readres.ok
                /\ readres.pkt = parsed.pkt
                /\ readres.rest = BDrop(wire, 4)

C2_Witness ==
    /\ cpc = "read"
    /\ input.kind = "marker"
    /\ input.type = "RESPONSE_END"
    /\ wire = Bytes(<<"0", "0", "0", "2">>)
    /\ parsed.ok
    /\ parsed.pkt.type = "RESPONSE_END"

\* The header of b declares a DATA payload longer than the bytes after it.
DeclaresMoreThanPresent(b) ==
    /\ BLen(b) >= 4
    /\ int_base16(Header(b)).ok
    /\ int_base16(Header(b)).val >= 4
    /\ int_base16(Header(b)).val - 4 > BLen(b) - 4

\* C3 as stated: short-buffer iff fewer than 4 bytes, truncated-payload iff
\* the header declares more payload than is present, success in every other
\* case.
C3_AsStated ==
    cpc \in {"parsed", "read"}
    => /\ (parsed.err = "short_buffer") <=> (BLen(wire) < 4)
       /\ (parsed.err = "truncated_payload") <=> DeclaresMoreThanPresent(wire)
       /\ (BLen(wire) >= 4 /\ ~DeclaresMoreThanPresent(wire)) => parsed.ok

\* C3 (amended): short-buffer iff fewer than 4 bytes; truncated-payload iff
\* the header declares more payload than is present; success iff the buffer
\* has at least 4 bytes, its header is a base-16 literal of value >= 0 and the
\* declared payload is present; a header that is no literal, or a negative
\* one, fails with another error.
C3_ParseErrors ==
    cpc \in {"parsed", "read"}
    => /\ (parsed.err = "short_buffer") <=> (BLen(wire) < 4)
       /\ (parsed.err = "truncated_payload") <=> DeclaresMoreThanPresent(wire)
       /\ parsed.ok <=>
            /\ BLen(wire) >= 4
            /\ int_base16(Header(wire)).ok
            /\ int_base16(Header(wire)).val >= 0
            /\ ~DeclaresMoreThanPresent(wire)
       /\ (BLen(wire) >= 4 /\ ~int_base16(Header(wire)).ok)
            => parsed.err = "invalid_literal"
       /\ (BLen(wire) >= 4 /\ int_base16(Header(wire)).ok
                           /\ int_base16(Header(wire)).val < 0)
            => parsed.err \in {"payload_required", "invalid_type"}

\* A header that declares one payload byte, with nothing after it.
C3_Witness ==
    /\ cpc = "parsed"
    /\ input.kind = "buffer"
    /\ wire = Bytes(<<"0", "0", "0", "5">>)
    /\ parsed.err = "truncated_payload"

\* C4: encoding a DATA packet fails for a payload of more than 65,515 bytes,
\* and every DATA packet on the wire has a header of exactly 4 hex digits
\* whose value is len(payload) + 4.
C4_EncodeBounded ==
    (cpc # "new" /\ input.kind \in {"data", "string"})
    => LET n == BLen(sent.data)
           hdr == Explicit(BTake(wire, BLen(wire) - n))
       IN  /\ n <= 65515
           /\ Len(hdr) = 4
           /\ AllHex(hdr)
           /\ HexValue(hdr) = n + 4

\* ------------------------------------------------------------ mirror diff
Range(list) == {list[i] : i \in 1..Len(list)}

InFilter(name) ==
    IncludeCall(include_filter, name) /\ ~ExcludeCall(exclude_filter, name)

\* The refs of a dict that pass the filters, as a set of (name, id) items.
FilteredItems(dict) == {r \in Range(dict) : InFilter(r.name)}

\* C5: once every emitted change is applied to the mirror refs, the mirror
\* refs that pass the filter are exactly the upstream refs that pass the
\* filter, with the same object ids.  Violated when upstream advertises the
\* all-zero id: no change can create that entry.
C5_MirrorEqualsUpstream ==
    mpc \in {"applied", "recalculated"} =>
        FilteredItems(mirror_after) = FilteredItems(upstream_refs)

\* C6: no emitted change has old and new both NULL_OBJECT_ID, and every
\* emitted change is exactly one of create, delete and update.  Violated for
\* a mirror entry with the all-zero id that upstream lacks.
C6_NoTwoNull ==
    \A c \in Range(changes) :
        /\ ~(c.old = NULL_OBJECT_ID /\ c.new = NULL_OBJECT_ID)
        /\ \/ is_create(c) /\ ~is_delete(c) /\ ~is_update(c)
           \/ ~is_create(c) /\ is_delete(c) /\ ~is_update(c)
           \/ ~is_create(c) /\ ~is_delete(c) /\ is_update(c)

\* C7: after the emitted changes are applied once to the mirror refs, a
\* recomputation against the same upstream refs and filters yields the empty
\* change list.
C7_Idempotent ==
    mpc = "recalculated" => changes_again = << >>

\* A recomputation after a run that emitted a create or update and a delete.
C7_Witness ==
    /\ mpc = "recalculated"
    /\ \E c \in Range(changes) : ~is_delete(c)
    /\ \E c \in Range(changes) : is_delete(c) /\ ~is_create(c)

\* C8: a change is emitted for a ref name only if the name matches the
\* include filter and does not match the exclude filter, and a mirror ref
\* outside the filter is the same after the changes are applied, whether or
\* not upstream has it.
C8_FilterComposition ==
    /\ \A c \in Range(changes) : InFilter(c.ref)
    /\ mpc \in {"applied", "recalculated"} =>
         \A name \in DictKeys(mirror_refs) \cup DictKeys(mirror_after) :
            ~InFilter(name) =>
                /\ name \in DictKeys(mirror_refs)
                /\ name \in DictKeys(mirror_after)
                /\ DictGet(mirror_after, name, NULL_OBJECT_ID)
                     = DictGet(mirror_refs, name, NULL_OBJECT_ID)

\* Both filters are set, changes were applied, an included mirror ref that
\* upstream lacks is excluded, and upstream has another id for an excluded
\* mirror ref.
C8_Witness ==
    /\ mpc = "applied"
    /\ ~include_filter.none /\ ~exclude_filter.none
    /\ changes # << >>
    /\ \E r \in Range(mirror_refs) :
          /\ IncludeCall(include_filter, r.name)
          /\ ExcludeCall(exclude_filter, r.name)
          /\ r.name \notin DictKeys(upstream_refs)
    /\ \E r \in Range(mirror_refs) : \E u \in Range(upstream_refs) :
          /\ ~InFilter(r.name)
          /\ u.name = r.name /\ u.object_id # r.object_id

\* ---------------------------------------------------------- update_mirror
\* The refs ls_refs gives on the upstream connection: the server's refs over
\* version 2, the lines of the advertisement over version 1.
UpstreamListing ==
    IF upstream_conn.substrate = "http" /\ upstream_server.protocol = 1
    THEN Advertisement(upstream_server) ELSE upstream_server.refs

Closed(c) ==
    /\ c.phase = "closed"
    /\ c.reader = "None" /\ c.writer = "None"
    /\ IF c.substrate = "http" THEN c._session = "closed" ELSE c.process = "exited"

\* C9: with dry_run set, update_mirror calls neither fetch_objects nor
\* push_changes and the target's refs stay as they were; when it returns it
\* has opened and closed both connections and returns the computed changes.
C9_DryRun ==
    dry_run =>
        /\ fetch_calls = 0
        /\ push_calls = 0
        /\ mirror_server.refs = target_before
        /\ jpc = "returned" =>
              /\ Closed(upstream_conn)
              /\ Closed(mirror_conn)
              /\ result = calculate_mirror_updates(Advertisement(mirror_server),
                              UpstreamListing, job_filters.include, job_filters.exclude)

\* A dry run that returned a change list with something to fetch and push.
C9_Witness ==
    /\ dry_run
    /\ jpc = "returned"
    /\ result # << >>
    /\ new_objects(result) # {}

\* ------------------------------------------------------------ connections
\* C10: close is terminal, and ls_refs, fetch_objects and push_changes neither
\* read or write on the substrate nor return refs on an unopened or closed
\* connection.  Violated: a closed connection opens again, and ls_refs on a
\* closed connection that negotiated version 1 returns the cached refs.
C10_Lifecycle ==
    /\ (last_op.op = "open" /\ last_op.phase = "closed") => conn.phase = "closed"
    /\ (/\ last_op.op \in {"ls_refs", "fetch_objects", "push_changes"}
        /\ last_op.phase \in {"unopened", "closed"})
         => (~last_op.io /\ last_op.returned = << >>)

\* -------------------------------------------------------------- transports
FirstAccepting(u) == Adapters[CHOOSE i \in Accepting(u) : \A j \in Accepting(u) : i <= j]

Pending(c) == c._shifted_packets \o c.reader

IsVersion2(pkt) ==
    pkt.type = "DATA" /\ pkt.data \in {Version2, Version2 \o <<"\n">>}

IsServiceHeader(pkt) ==
    pkt = Pkt("DATA", ServiceHeader(ServiceName(hconn.kind)))

\* C12: on the http substrate, a body that starts with the service header
\* must continue with FLUSH, and the packet after it decides the protocol
\* (v2 iff DATA "version 2", else v1); a body that starts with "version 2"
\* is v2; any other first packet makes the open fail.  When the open
\* succeeds the packets still to be delivered are the body from the
\* deciding packet on, each once and in order.
C12_HttpHello ==
    (hpc # "new" /\ hpc # "idle" /\ hconn.substrate = "http" /\ body # << >>) =>
        /\ (IsServiceHeader(body[1]) /\ Len(body) >= 2 /\ body[2] # FLUSH_PKT)
              => opened.err # ""
        /\ (IsServiceHeader(body[1]) /\ Len(body) >= 3 /\ body[2] = FLUSH_PKT)
              => /\ opened.err = ""
                 /\ opened.conn._negotiated_protocol = (IF IsVersion2(body[3]) THEN 2 ELSE 1)
                 /\ Pending(opened.conn) = SubSeq(body, 3, Len(body))
                 /\ read_packet(opened.conn).pkt = body[3]
        /\ (~IsServiceHeader(body[1]) /\ IsVersion2(body[1]))
              => /\ opened.err = ""
                 /\ opened.conn._negotiated_protocol = 2
                 /\ Pending(opened.conn) = body
                 /\ read_packet(opened.conn).pkt = body[1]
        /\ (~IsServiceHeader(body[1]) /\ ~IsVersion2(body[1]))
              => opened.err # ""

\* A fetch over http whose body has the service header, a flush and a
\* legacy advertisement: opened as v1 and read by the v1 hello parser.
C12_Witness ==
    /\ hpc = "ready"
    /\ hconn.substrate = "http"
    /\ Len(body) >= 3
    /\ IsServiceHeader(body[1])
    /\ ~IsVersion2(body[3])
    /\ opened.conn._negotiated_protocol = 1
    /\ hconn._cached_refs.set

\* The place of the first FLUSH of a packet sequence, one past its end if
\* it has none.
FirstFlush(pkts) ==
    IF \E i \in 1..Len(pkts) : pkts[i] = FLUSH_PKT
    THEN CHOOSE i \in 1..Len(pkts) :
             pkts[i] = FLUSH_PKT /\ \A j \in 1..(i - 1) : pkts[j] # FLUSH_PKT
    ELSE Len(pkts) + 1

\* A payload without its trailing newline.
Chomp(data) ==
    IF data # << >> /\ data[Len(data)] = "\n" THEN SubSeq(data, 1, Len(data) - 1) ELSE data

\* The hello a v2 fetch parser is given: what the open left to deliver.
V2Hello == Pending(opened.conn)

FetchV2 ==
    /\ hpc \notin {"new", "idle"}
    /\ hconn.kind = "fetch"
    /\ opened.err = ""
    /\ negotiated_protocol(opened.conn) = 2

\* C13: after a v2 fetch hello the capabilities are exactly the payloads,
\* newline stripped, of the DATA packets between the "version 2" packet and
\* the FLUSH; the negotiated protocol is 2; no refs come from the hello.  A
\* hello whose first packet is not "version 2" does not open, and one that
\* is "version 2", DATA packets and a FLUSH does.
C13_HelloV2 ==
    FetchV2 =>
        /\ hpc = "ready" =>
              /\ V2Hello # << >> /\ IsVersion2(V2Hello[1])
              /\ hconn.capabilities =
                    {Chomp(V2Hello[i].data) : i \in 2..(FirstFlush(V2Hello) - 1)}
              /\ \A i \in 2..(FirstFlush(V2Hello) - 1) : V2Hello[i].type = "DATA"
              /\ negotiated_protocol(hconn) = 2
              /\ ~hconn._cached_refs.set
              /\ hconn.refs = << >>
        /\ (V2Hello # << >> /\ ~IsVersion2(V2Hello[1])) => hpc # "ready"
        /\ (/\ V2Hello # << >> /\ IsVersion2(V2Hello[1])
            /\ FirstFlush(V2Hello) <= Len(V2Hello)
            /\ \A i \in 2..(FirstFlush(V2Hello) - 1) : V2Hello[i].type = "DATA")
              => hpc = "ready"

\* A v2 hello with two capabilities, one of them newline-terminated.
C13_Witness ==
    /\ FetchV2
    /\ hpc = "ready"
    /\ Cardinality(hconn.capabilities) = 2
    /\ \E i \in 2..(FirstFlush(V2Hello) - 1) : Chomp(V2Hello[i].data) # V2Hello[i].data

\* The hello a v1 parser is given, and where its section ends.
V1Hello == Pending(opened.conn)

V1Run ==
    /\ hpc \notin {"new", "idle"}
    /\ opened.err = ""
    /\ negotiated_protocol(opened.conn) = 1

SectionEnd(pkts) ==
    IF \E i \in 1..Len(pkts) : pkts[i].type \in {"FLUSH", "DELIMITER"}
    THEN CHOOSE i \in 1..Len(pkts) :
             /\ pkts[i].type \in {"FLUSH", "DELIMITER"}
             /\ \A j \in 1..(i - 1) : pkts[j].type \notin {"FLUSH", "DELIMITER"}
    ELSE Len(pkts) + 1

IsWord(t) == t \notin {" ", "\n", NUL}

IsVersionLine(pkt) ==
    pkt.type = "DATA" /\ Len(pkt.data) >= 2 /\ pkt.data[1] = "version" /\ pkt.data[2] = " "

\* "<oid> <name>", newline optional
IsRefLine(pkt) ==
    /\ pkt.type = "DATA"
    /\ Len(Chomp(pkt.data)) = 3
    /\ IsWord(pkt.data[1]) /\ pkt.data[2] = " " /\ IsWord(pkt.data[3])

\* "<oid> <name>" NUL and words separated by single spaces, newline optional
IsFirstRefLine(pkt) ==
    /\ pkt.type = "DATA"
    /\ Len(Chomp(pkt.data)) >= 5
    /\ IsWord(pkt.data[1]) /\ pkt.data[2] = " " /\ IsWord(pkt.data[3]) /\ pkt.data[4] = NUL
    /\ \A i \in 5..Len(Chomp(pkt.data)) :
          IF i % 2 = 1 THEN IsWord(pkt.data[i]) ELSE pkt.data[i] = " "
    /\ Len(Chomp(pkt.data)) % 2 = 1

\* Where the ref lines of a v1 hello start: after the "version 1" packet
\* if there is one.
FirstRefAt(pkts) ==
    IF pkts # << >> /\ pkts[1].type = "DATA" /\ Chomp(pkts[1].data) = Version1 THEN 2 ELSE 1

WellFormedV1(pkts) ==
    /\ SectionEnd(pkts) <= Len(pkts)
    /\ FirstRefAt(pkts) < SectionEnd(pkts)
    /\ IsFirstRefLine(pkts[FirstRefAt(pkts)])
    /\ \A i \in (FirstRefAt(pkts) + 1)..(SectionEnd(pkts) - 1) : IsRefLine(pkts[i])

\* The refs the hello gave: refs of a push connection, the cached refs of a
\* fetch connection.
HelloRefs == IF hconn.kind = "push" THEN hconn.refs ELSE hconn._cached_refs.refs

\* C14: the v1 hello accepts a body with and without the leading
\* "version 1" packet; its refs are those of every ref line up to the end
\* of the section and its capabilities the words after the NUL of the first
\* ref line.  A first packet "version <other>" does not open.
C14_HelloV1 ==
    V1Run =>
        /\ WellFormedV1(V1Hello) =>
              /\ hpc = "ready"
              /\ {HelloRefs[i] : i \in 1..Len(HelloRefs)} =
                    {Ref(<<V1Hello[i].data[3]>>, <<V1Hello[i].data[1]>>) :
                        i \in FirstRefAt(V1Hello)..(SectionEnd(V1Hello) - 1)}
              /\ hconn.capabilities =
                    LET first == Chomp(V1Hello[FirstRefAt(V1Hello)].data)
                    IN  {<<first[i]>> : i \in {j \in 5..Len(first) : IsWord(first[j])}}
        /\ (/\ V1Hello # << >>
            /\ IsVersionLine(V1Hello[1])
            /\ Chomp(V1Hello[1].data) # Version1) => hpc # "ready"

\* A hello that starts with "version 1" and a first ref line, accepted.
C14_Witness ==
    /\ V1Run
    /\ hpc = "ready"
    /\ FirstRefAt(V1Hello) = 2
    /\ Len(HelloRefs) >= 1
    /\ Cardinality(hconn.capabilities) = 2

\* The same hello without the "version 1" packet (v0), with two ref lines.
C14_WitnessV0 ==
    /\ V1Run
    /\ hpc = "ready"
    /\ FirstRefAt(V1Hello) = 1
    /\ Len(HelloRefs) = 2

\* What the service advertises: the body, after the service header and
\* flush that smart HTTP puts before it.
Advertised ==
    IF hconn.substrate # "http" THEN body
    ELSE IF Len(body) >= 2 /\ IsServiceHeader(body[1]) /\ body[2] = FLUSH_PKT
    THEN SubSeq(body, 3, Len(body))
    ELSE << >>

\* C15: on file, ssh and http, a fetch connection whose server answers
\* with a legacy (v1 or v0) advertisement opens, with negotiated protocol 1
\* and the advertised refs cached.
C15_V1Fallback ==
    (/\ hpc \notin {"new", "idle"}
     /\ hconn.kind = "fetch"
     /\ WellFormedV1(Advertised))
        => /\ hpc = "ready"
           /\ negotiated_protocol(hconn) = 1
           /\ hconn._cached_refs.set

\* C16: a push connection that is ready has negotiated protocol 1, and a
\* push connection whose server answers "version 2" is never ready.
C16_PushIsV1 ==
    (hconn.kind = "push" /\ hpc \notin {"new", "idle"}) =>
        /\ hpc = "ready" => negotiated_protocol(hconn) = 1
        /\ (Advertised # << >> /\ IsVersion2(Advertised[1])) => hpc # "ready"
        /\ (body # << >> /\ IsVersion2(body[1])) => hpc # "ready"

\* A push over http that negotiated: the server answered "version 1".
C16_Witness ==
    /\ hconn.kind = "push"
    /\ hconn.substrate = "http"
    /\ hpc = "ready"
    /\ hconn._negotiated_protocol = 1
    /\ Len(hconn.refs) >= 1

\* A push over http whose server answered "version 2": refused.
C16_WitnessV2 ==
    /\ hconn.kind = "push"
    /\ hconn.substrate = "http"
    /\ opened.err = ""
    /\ opened.conn._negotiated_protocol = 2
    /\ hpc = "AssertionError"

\* The refs of the server under a prefix: what ls_refs has to yield on
\* either protocol.
ServerRefsUnder(prefix) ==
    {r \in Range(server.refs) : name_startswith(r.name, prefix)}

\* C17: ls_refs on a ready connection yields the refs of the server whose
\* names start with the prefix, whether the connection negotiated
\* version 1 (replay of the cached advertisement) or version 2 (ls-refs
\* command): the same set on both, every name under the prefix.
C17_LsRefsSame ==
    (last_op.op = "ls_refs" /\ last_op.phase = "ready" /\ last_op.raised = "") =>
        /\ Range(last_op.returned) = ServerRefsUnder(last_op.prefix)
        /\ \A r \in Range(last_op.returned) : name_startswith(r.name, last_op.prefix)

Called == fpc \in {"done", "raised"}

\* C18: no request of fetch_objects, on version 1 or version 2, holds a
\* have line for the null object id.
C18_NoNullHave ==
    Called =>
        \A i \in 1..Len(fetched.request) :
            ~StartsWith(fetched.request[i].data, <<"have", " ", NULL_OBJECT_ID>>)

\* The response starts with an acknowledgments section that a FLUSH ends.
AcksEndedByFlush ==
    /\ negotiated_protocol(fconn) = 2
    /\ fetch_call.response # << >>
    /\ fetch_call.response[1] = data_line(<<"acknowledgments">>)
    /\ fetch_call.response[SectionEnd(fetch_call.response)] = FLUSH_PKT

\* The object ids of the "ACK <oid>" lines of that section.
Acked ==
    {fetch_call.response[i].data[3] :
        i \in {j \in 2..(SectionEnd(fetch_call.response) - 1) :
                  StartsWith(fetch_call.response[j].data, <<"ACK", " ">>)}}

\* C19: a version 2 fetch whose acknowledgments section is ended by FLUSH
\* fails with the negotiation failure, reports as missing the wants without
\* an "ACK <oid>" line, and writes nothing to the output.
C19_NegotiationFailed ==
    (Called /\ AcksEndedByFlush) =>
        /\ fetched.err = "ConnectionException: Server negotiation failed"
        /\ fetched.missing = {fetch_call.objects[i] : i \in 1..Len(fetch_call.objects)} \ Acked
        /\ fetched.output = << >>

\* The packets of the packfile section of a response that is that section
\* alone, or an acknowledgments section without "ready" that a delimiter
\* ends and then that section.
PackfileAt ==
    IF fetch_call.response # << >> /\ fetch_call.response[1] = data_line(<<"packfile">>)
    THEN 1
    ELSE IF /\ fetch_call.response # << >>
            /\ fetch_call.response[1] = data_line(<<"acknowledgments">>)
            /\ fetch_call.response[SectionEnd(fetch_call.response)] = DELIM_PKT
            /\ \A j \in 2..(SectionEnd(fetch_call.response) - 1) :
                  fetch_call.response[j].data # <<"ready", "\n">>
            /\ Len(fetch_call.response) > SectionEnd(fetch_call.response)
    THEN SectionEnd(fetch_call.response) + 1
    ELSE 0

PackfileSection ==
    LET rest == SubSeq(fetch_call.response, PackfileAt + 1, Len(fetch_call.response))
    IN  SubSeq(rest, 1, SectionEnd(rest) - 1)

\* payload[1:] of the band-1 packets, in order
RECURSIVE Band1(_)
Band1(pkts) ==
    IF pkts = << >> THEN << >>
    ELSE (IF pkts[1].data # << >> /\ pkts[1].data[1] = "band1" THEN Tail(pkts[1].data)
          ELSE << >>) \o Band1(Tail(pkts))

\* C20: in the packfile section of a version 2 fetch the output receives the
\* payloads of the band-1 packets, without the band byte, in order, and
\* nothing else; the other packets raise nothing.
C20_Packfile ==
    (Called /\ negotiated_protocol(fconn) = 2 /\ PackfileAt > 0) =>
        /\ fetched.err = ""
        /\ fetched.output = Band1(PackfileSection)

\* ------------------------------------------------------------ push_changes
PushCalled == ppc \in {"done", "raised"}

\* The changes of the call that are not deletes, in the order of the list
NonDeletes == SelectSeq(push_call.changes, LAMBDA c : c.new # NULL_OBJECT_ID)

\* "<old> <new> <ref>"
CommandOf(c) == <<c.old, " ", c.new, " ", c.ref>>

HasNul(data) == \E i \in 1..Len(data) : data[i] = NUL

\* C21: on a server that did not advertise delete-refs, push_changes writes
\* one command packet "<old> <new> <ref>" per create and update, in the order
\* of the list, and none for a delete; the capability list follows a NUL in
\* the first packet written and in no other; one FLUSH follows the last
\* command, and only the pack comes after it.
C21_Commands ==
    (PushCalled /\ <<"delete-refs">> \notin pconn.capabilities) =>
        LET w == pushed.written
            n == Len(NonDeletes)
        IN  /\ Len(w) >= n + 1
            /\ \A i \in 1..n :
                 /\ w[i].type = "DATA"
                 /\ SubSeq(w[i].data, 1, 5) = CommandOf(NonDeletes[i])
                 /\ IF i = 1
                    THEN /\ Len(w[i].data) > 8
                         /\ w[i].data[6] = NUL
                         /\ ~HasNul(SubSeq(w[i].data, 7, Len(w[i].data)))
                         /\ w[i].data[Len(w[i].data)] = "\n"
                    ELSE w[i].data = CommandOf(NonDeletes[i]) \o <<"\n">>
            /\ w[n + 1] = FLUSH_PKT
            /\ \A i \in (n + 2)..Len(w) : w[i].type = "RAW"
            /\ Len(w) - (n + 1)
                 = (IF push_call.packfile.given THEN Len(push_call.packfile.chunks) ELSE 0)

\* A delete that is skipped comes first, then a create and an update, with a
\* pack.
C21_Witness ==
    /\ ppc = "done"
    /\ <<"delete-refs">> \notin pconn.capabilities
    /\ Len(push_call.changes) = 3
    /\ push_call.changes[1].new = NULL_OBJECT_ID
    /\ push_call.packfile.given
    /\ Len(pushed.written) = 5


\* The status report holds a band 3 packet that push_changes reads: the
\* request was accepted, report-status is in use, and the packet comes before
\* the first FLUSH.
Band3Read ==
    /\ PushCalled
    /\ ~(pconn.substrate = "http" /\ push_call.status # 200)
    /\ <<"report-status">> \in pconn.capabilities
    /\ \E i \in 1..Len(push_call.response) :
         /\ push_call.response[i].type = "DATA"
         /\ push_call.response[i].data # << >>
         /\ push_call.response[i].data[1] = "band3"
         /\ \A j \in 1..(i - 1) :
              /\ push_call.response[j].type = "DATA"
              /\ push_call.response[j].data # << >>
              /\ push_call.response[j].data[1] \in {"band2", "band3"}

\* C22: a band 3 packet of the status report makes push_changes raise; it
\* never returns normally after reading one.
C22_Band3Fails == Band3Read => pushed.err # ""

\* ------------------------------------------------- update_mirror, in order
Entered(c) == c.phase \in {"ready", "closed"}

JobEnded == jpc \in {"returned", "raised"}

C23_WitnessPush ==
    /\ jpc = "raised"
    /\ job_raised = "ConnectionException"
    /\ fetch_calls = 1
    /\ push_calls = 1

\* ------------------------------------------------------ hello, terminators
\* The section of a v1 hello ends with a DELIMITER, or ends before any ref
\* line.
EndsWithDelimiter(pkts) ==
    SectionEnd(pkts) <= Len(pkts) /\ pkts[SectionEnd(pkts)].type = "DELIMITER"

NoRefLine(pkts) == SectionEnd(pkts) <= Len(pkts) /\ FirstRefAt(pkts) >= SectionEnd(pkts)

\* C24: the v1 hello reaches ready only on a ref section that a FLUSH ends:
\* a section that a DELIMITER ends, or one with no DATA packet before its
\* end, does not open.
C24_FlushEndsV1 ==
    (V1Run /\ (EndsWithDelimiter(V1Hello) \/ NoRefLine(V1Hello))) => hpc # "ready"

\* The part of C24 about a section without ref lines
C24_EmptySection == (V1Run /\ NoRefLine(V1Hello)) => hpc # "ready"

\* -------------------------------------------------------------- v2 commands
\* C25: a version 2 command goes out as one "command=<name>" packet, one
\* packet per capability ("key=value", or the bare key for an empty value),
\* one DELIMITER, one packet per argument in the order given, and one FLUSH
\* last; FLUSH and DELIMITER occur nowhere else.
C25_CommandShape ==
    gpc = "sent" =>
        LET k == Len(command_call.capabilities)
            n == Len(command_call.args)
            w == command_packets
        IN  /\ Len(w) = k + n + 3
            /\ w[1] = Pkt("DATA", <<"command=" \o command_call.name, "\n">>)
            /\ \A i \in 1..k :
                 w[1 + i] = Pkt("DATA",
                     <<IF command_call.capabilities[i].value = ""
                       THEN command_call.capabilities[i].key
                       ELSE command_call.capabilities[i].key \o "="
                            \o command_call.capabilities[i].value, "\n">>)
            /\ w[k + 2] = DELIM_PKT
            /\ \A i \in 1..n : w[k + 2 + i] = Pkt("DATA", command_call.args[i] \o <<"\n">>)
            /\ w[Len(w)] = FLUSH_PKT
            /\ \A i \in 1..Len(w) : w[i].type # "DATA" => i \in {k + 2, Len(w)}

\* A command without arguments, and one with two capabilities and two
\* arguments.
C25_Witness ==
    /\ gpc = "sent"
    /\ command_call.args = << >>
    /\ Len(command_call.capabilities) = 1

C25_WitnessFull ==
    /\ gpc = "sent"
    /\ Len(command_call.args) = 2
    /\ Len(command_call.capabilities) = 2

\* ------------------------------------------------------ fetch, the request
\* The hello advertised wait-for-done: as a capability line of its own or as
\* one of the words of a line such as "fetch=shallow wait-for-done filter".
AdvertisedWaitForDone ==
    \E line \in fconn.capabilities : \E i \in 1..Len(line) : line[i] = "wait-for-done"

\* The argument packets of a version 2 fetch: what lies between the
\* DELIMITER and the FLUSH of the request.
FetchArguments ==
    IF Len(fetched.request) >= 3 THEN SubSeq(fetched.request, 3, Len(fetched.request) - 1)
    ELSE << >>

GivenHaves == IF fetch_call.have.given THEN fetch_call.have.items ELSE << >>

\* C26: the arguments of a version 2 fetch are "wait-for-done" exactly when
\* the hello advertised it, then "have <oid>" per have, then "want <oid>" per
\* want, then "done" last.
C26_FetchArguments ==
    (Called /\ negotiated_protocol(fconn) = 2) =>
        /\ fetched.request[1] = Pkt("DATA", <<"command=fetch", "\n">>)
        /\ fetched.request[2] = DELIM_PKT
        /\ fetched.request[Len(fetched.request)] = FLUSH_PKT
        /\ FetchArguments =
             (IF AdvertisedWaitForDone THEN <<Pkt("DATA", <<"wait-for-done", "\n">>)>>
              ELSE << >>)
             \o [i \in 1..Len(GivenHaves) |-> Pkt("DATA", <<"have", " ", GivenHaves[i], "\n">>)]
             \o [i \in 1..Len(fetch_call.objects) |->
                    Pkt("DATA", <<"want", " ", fetch_call.objects[i], "\n">>)]
             \o <<Pkt("DATA", <<"done", "\n">>)>>

\* ------------------------------------------- fetch, the acknowledgments end
\* The response starts with an acknowledgments section that a DELIMITER ends.
AcksEndedByDelimiter ==
    /\ negotiated_protocol(fconn) = 2
    /\ fetch_call.response # << >>
    /\ fetch_call.response[1] = data_line(<<"acknowledgments">>)
    /\ SectionEnd(fetch_call.response) <= Len(fetch_call.response)
    /\ fetch_call.response[SectionEnd(fetch_call.response)] = DELIM_PKT

\* What follows that section
AfterAcks ==
    SubSeq(fetch_call.response, SectionEnd(fetch_call.response) + 1, Len(fetch_call.response))

\* ... is a packfile section of band 1 packets that a FLUSH ends
PackAfterAcks ==
    /\ AfterAcks # << >>
    /\ AfterAcks[1] = data_line(<<"packfile">>)
    /\ SectionEnd(AfterAcks) <= Len(AfterAcks)
    /\ AfterAcks[SectionEnd(AfterAcks)] = FLUSH_PKT
    /\ \A i \in 2..(SectionEnd(AfterAcks) - 1) :
          AfterAcks[i].data # << >> /\ AfterAcks[i].data[1] = "band1"

\* C27: a version 2 fetch whose acknowledgments section is ended by a
\* DELIMITER, whatever its lines ("ready" and "NAK" included) and whatever
\* ended the sections read before it, does not fail the negotiation and goes
\* on with the header of the next section: a packfile section that follows
\* is written to the output.
C27_AcksTerminator ==
    (Called /\ AcksEndedByDelimiter) =>
        /\ fetched.err # "ConnectionException: Server negotiation failed"
        /\ PackAfterAcks =>
              /\ fetched.err = ""
              /\ fetched.output = Band1(SubSeq(AfterAcks, 2, SectionEnd(AfterAcks) - 1))

\* ------------------------------------------------ fetch, unrequested sections
\* The header of the first section of the response, and of the section
\* after an acknowledgments section that a DELIMITER ends.
IsHeader(pkt) == pkt.type = "DATA" /\ Len(pkt.data) = 2 /\ pkt.data[2] = "\n"

FirstHeaderUnexpected ==
    /\ negotiated_protocol(fconn) = 2
    /\ fetch_call.response # << >>
    /\ IsHeader(fetch_call.response[1])
    /\ fetch_call.response[1].data[1] \notin {"acknowledgments", "packfile"}

SecondHeaderUnexpected ==
    /\ AcksEndedByDelimiter
    /\ AfterAcks # << >>
    /\ IsHeader(AfterAcks[1])
    /\ AfterAcks[1].data[1] # "packfile"

\* C28: a version 2 fetch response with a section that is neither the
\* acknowledgments section at its start nor the packfile section makes
\* fetch_objects raise, and nothing is written to the output.
C28_UnexpectedSection ==
    (Called /\ (FirstHeaderUnexpected \/ SecondHeaderUnexpected)) =>
        /\ fetched.err # ""
        /\ fetched.output = << >>

\* The error is the one of the unexpected section when the acknowledgments
\* were read to their end.
C28_Error ==
    (/\ Called
     /\ FirstHeaderUnexpected \/ SecondHeaderUnexpected
     /\ \A i \in 1..Len(fetch_call.response) :
           fetch_call.response[i].data # <<"ready", "\n">>) =>
        fetched.err = "ConnectionException: Unexpected section"

\* shallow-info after the acknowledgments, with a packfile section behind it.
C28_Witness ==
    /\ fpc = "raised"
    /\ SecondHeaderUnexpected
    /\ AfterAcks[1].data[1] = "shallow-info"
    /\ fetched.err = "ConnectionException: Unexpected section"
    /\ Len(fetch_call.response) > 6

C28_WitnessFirst ==
    /\ fpc = "raised"
    /\ FirstHeaderUnexpected
    /\ fetch_call.response[1].data[1] = "wanted-refs"

\* ------------------------------------------------------ fetch, v1 request
\* The call went to a version 1 server.
CalledV1 == Called /\ negotiated_protocol(fconn) = 1

\* The haves that are sent, in the order they are iterated in.
SentHaves == SelectSeq(fetch_call.have.items, LAMBDA obj : obj # NULL_OBJECT_ID)

\* The capabilities after the first want.
FirstWantCapabilities ==
    IF <<"multi_ack_detailed">> \in fconn.capabilities
    THEN <<" ", "agent=kalandra", " ", "multi_ack_detailed", "\n">>
    ELSE <<" ", "agent=kalandra", "\n">>

\* The packets of the request that want obj.
WantsOf(obj) ==
    {i \in 1..Len(fetched.request) :
        /\ fetched.request[i].type = "DATA"
        /\ StartsWith(fetched.request[i].data, <<"want", " ", obj>>)}

\* C29: the version 1 request is the first want with the sorted capabilities
\* in use, a plain want for each other object, a have for each have that is
\* not the null object id, a FLUSH and "done"; each want is sent once and
\* only the first carries capabilities.
C29_RequestV1 ==
    CalledV1 =>
        LET request == fetched.request
            wants == Len(fetch_call.objects)
            haves == Len(SentHaves)
        IN  /\ Len(request) = wants + haves + 2
            /\ request[1] = Pkt("DATA", <<"want", " ", fetch_call.objects[1]>>
                                        \o FirstWantCapabilities)
            /\ \A i \in 2..wants :
                  request[i] = Pkt("DATA", <<"want", " ", fetch_call.objects[i], "\n">>)
            /\ \A i \in 1..haves :
                  request[wants + i] = Pkt("DATA", <<"have", " ", SentHaves[i], "\n">>)
            /\ request[wants + haves + 1] = FLUSH_PKT
            /\ request[wants + haves + 2] = Pkt("DATA", <<"done", "\n">>)
            /\ \A i \in 1..wants : Cardinality(WantsOf(fetch_call.objects[i])) = 1

\* Two wants, the null object id among three haves, multi_ack_detailed
\* advertised.
C29_Witness ==
    /\ CalledV1 /\ fpc = "done"
    /\ Len(fetch_call.objects) = 2
    /\ Len(fetch_call.have.items) = 3
    /\ <<"multi_ack_detailed">> \in fconn.capabilities
    /\ Len(fetched.request) = 6

\* ----------------------------------------------------- fetch, v1 response
\* A packet the acknowledgment loop of version 1 reads over.
IsAckV1(pkt) == pkt.type = "DATA" /\ StartsWith(pkt.data, <<"ACK", " ">>)

\* The place of the first packet of the response that is not an ACK, 0
\* when there is none.
FirstNonAck ==
    LET places == {i \in 1..Len(fetch_call.response) : ~IsAckV1(fetch_call.response[i])}
    IN  IF places = {} THEN 0
        ELSE CHOOSE i \in places : \A j \in places : i <= j

IsNak(pkt) == pkt.type = "DATA" /\ pkt.data \in {<<"NAK", "\n">>, <<"NAK">>}

\* The bytes of the response behind its packet at place.
RECURSIVE BytesBehind(_)
BytesBehind(place) ==
    IF place >= Len(fetch_call.response) THEN << >>
    ELSE LET pkt == fetch_call.response[place + 1]
         IN  (CASE pkt.type = "FLUSH" -> <<"0000">>
                [] pkt.type = "DELIMITER" -> <<"0001">>
                [] pkt.type = "DATA" -> <<"pkt">> \o pkt.data
                [] OTHER -> pkt.data)
             \o BytesBehind(place + 1)

\* C30: a version 1 response is ACK packets, a NAK packet and raw bytes: the
\* output receives the bytes behind the NAK, all of them and nothing else;
\* when the first packet that is not an ACK is not a NAK either,
\* fetch_objects raises and the output receives nothing.
C30_ResponseV1 ==
    (CalledV1 /\ FirstNonAck # 0) =>
        IF IsNak(fetch_call.response[FirstNonAck])
        THEN /\ fpc = "done"
             /\ fetched.output = BytesBehind(FirstNonAck)
        ELSE /\ fpc = "raised"
             /\ fetched.output = << >>

\* An ACK, the NAK and the pack behind it.
C30_Witness ==
    /\ CalledV1 /\ fpc = "done"
    /\ FirstNonAck = 2
    /\ fetched.output = <<"PACK", "objects">>

\* An ACK and then a packet that is neither ACK nor NAK, with the pack
\* behind it.
C30_WitnessFails ==
    /\ CalledV1 /\ fpc = "raised"
    /\ FirstNonAck = 2
    /\ fetch_call.response[2] = Pkt("DATA", <<"ready", "\n">>)
    /\ Len(fetch_call.response) = 3
    /\ fetched.err = "ConnectionError"

\* ------------------------------------------------- push, the capabilities
\* The capabilities push_changes wrote: the words behind the NUL of the
\* packets it sent.
SentCapabilities ==
    {cap \in {"report-status", "side-band-64k", "object-format=sha1", "delete-refs",
              "agent=git/2.46.00000", "atomic", "push-options"} :
        \E i \in 1..Len(pushed.written) :
            /\ pushed.written[i].type = "DATA"
            /\ \E j, k \in 1..Len(pushed.written[i].data) :
                  /\ j < k
                  /\ pushed.written[i].data[j] = NUL
                  /\ pushed.written[i].data[k] = cap}

\* Every word behind a NUL is one of the capabilities above.
OnlyKnownWords ==
    \A i \in 1..Len(pushed.written) :
        pushed.written[i].type = "DATA" =>
            \A j, k \in 1..Len(pushed.written[i].data) :
                (j < k /\ pushed.written[i].data[j] = NUL) =>
                    \/ pushed.written[i].data[k] \in {" ", "\n"}
                    \/ pushed.written[i].data[k] \in SentCapabilities

\* C31: what a push sends as capabilities is the agent token and nothing but
\* capabilities of report-status, side-band-64k and object-format=sha1 that
\* the server advertised.
C31_SelectedCapabilities ==
    PushCalled =>
        /\ OnlyKnownWords
        /\ \A cap \in SentCapabilities :
              \/ cap = "agent=git/2.46.00000"
              \/ /\ cap \in {"report-status", "side-band-64k", "object-format=sha1"}
                 /\ <<cap>> \in pconn.capabilities

\* A server that advertises delete-refs and object-format=sha1 but neither
\* report-status nor side-band-64k, and a command that is sent.
C31_Witness ==
    /\ ppc = "done"
    /\ <<"report-status">> \notin pconn.capabilities
    /\ <<"delete-refs">> \in pconn.capabilities
    /\ SentCapabilities = {"object-format=sha1", "agent=git/2.46.00000"}

\* ------------------------------------------------------ transactions, HTTP
\* The bytes of the packets of the transaction, markers and data, and the
\* chunks of its pack file behind them.
RECURSIVE BytesFrom(_)
BytesFrom(place) ==
    IF place > Len(transaction.packets)
    THEN (IF transaction.packfile.given THEN transaction.packfile.chunks ELSE << >>)
    ELSE LET pkt == transaction.packets[place]
         IN  (CASE pkt.type = "FLUSH" -> <<"0000">>
                [] pkt.type = "DELIMITER" -> <<"0001">>
                [] OTHER -> <<"pkt">> \o pkt.data)
             \o BytesFrom(place + 1)

SendDone == tpc \in {"sent", "raised"}

IsPrefix(short, long) ==
    Len(short) <= Len(long) /\ SubSeq(long, 1, Len(short)) = short

\* C32: over HTTP a command is one POST whose body is the bytes the pipe of
\* a service receives for the same packets, the pack behind the last FLUSH;
\* after status 200 the packets read are those of the response body, after
\* another status the send raises and the reader is as it was.
C32_HttpTransaction ==
    SendDone =>
        IF tconn.substrate = "http"
        THEN /\ posts = <<BytesFrom(1)>>
             /\ written_bytes = << >>
             /\ IF transaction.status = 200
                THEN /\ send_raised = ""
                     /\ IsPrefix(packets_read, transaction.response)
                     /\ Len(packets_read) + Len(tconn.reader) = Len(transaction.response)
                ELSE /\ tpc = "raised"
                     /\ tconn.reader = transaction.leftover
        ELSE /\ written_bytes = BytesFrom(1)
             /\ posts = << >>

\* A push with a pack over HTTP whose answer was read to its end, while the
\* earlier answer had a packet left.
C32_Witness ==
    /\ tpc = "sent"
    /\ tconn.substrate = "http"
    /\ transaction.kind = "push"
    /\ transaction.packfile.given
    /\ Len(transaction.packets) = 3
    /\ transaction.leftover # << >>
    /\ Len(packets_read) = 3

\* A refused POST.
C32_WitnessRefused ==
    /\ tpc = "raised"
    /\ transaction.status = 403
    /\ transaction.leftover # << >>
    /\ Len(posts) = 1

\* ----------------------------------------------------------- section reader
\* The place of the first FLUSH of the stream, 0 without one.
FirstFlushOfStream ==
    LET places == {i \in 1..Len(uconn.reader) : uconn.reader[i].type = "FLUSH"}
    IN  IF places = {} THEN 0 ELSE CHOOSE i \in places : \A j \in places : i <= j

SectionReadDone == section_pc \in {"returned", "raised"}

\* The stream ends, at once or later, and has no FLUSH.
EndsWithoutFlush == stream_end # "open" /\ FirstFlushOfStream = 0

\* C33: the reader yields the packets before the first FLUSH, DATA packets
\* all of them, and records the FLUSH as last_packet; without a FLUSH it
\* returns normally only when the stream was at EOF as the call started, and
\* it raises when the stream ends after a packet of the section or inside a
\* packet.
C33_UntilFlush ==
    /\ (SectionReadDone /\ FirstFlushOfStream # 0) =>
          /\ \A i \in 1..Len(section_read.yielded) :
                section_read.yielded[i].type = "DATA"
          /\ section_pc = "returned" =>
                /\ section_read.yielded = SubSeq(uconn.reader, 1, FirstFlushOfStream - 1)
                /\ section_read.conn.last_packet = FLUSH_PKT
    /\ (SectionReadDone /\ FirstFlushOfStream = 0) =>
          (section_pc = "returned" <=> (uconn.reader = << >> /\ stream_end = "eof"))
    /\ (section_pc # "ready" /\ EndsWithoutFlush /\ uconn.reader # << >>) => section_pc = "raised"

\* With DATA packets only before the FLUSH and a stream that is not at EOF
\* behind a packet, the reader does what C33 says.
C33_DataThenFlush ==
    (/\ SectionReadDone
     /\ \A i \in 1..Len(uconn.reader) :
           (FirstFlushOfStream = 0 \/ i < FirstFlushOfStream) =>
               uconn.reader[i].type # "DELIMITER"
     /\ ~(stream_end = "eof" /\ FirstFlushOfStream = 0 /\ uconn.reader # << >>
          /\ uconn.reader[Len(uconn.reader)].type # "PARTIAL"))
    => C33_UntilFlush

\* ---------------------------------------------------------------- lifecycle
\* C34: closing a file connection terminates a child that still runs, waits
\* for it and cancels the drain task after that, and the close returns
\* normally however the exit of the child and the drain task interleave: it
\* raises no CancelledError.
C34_CloseReturns ==
    /\ life_raised # "CancelledError"
    /\ (lsubstrate = "file" /\ lpc = "closed") =>
          /\ child = "exited"
          /\ err_task \in {"finished", "cancelled"}

\* The close of a file connection ends well when the drain task had read
\* its EOF before the cancel.
C34_DrainedFirst ==
    (lpc \in {"closed", "close_raised"} /\ lsubstrate = "file"
     /\ err_task = "finished" /\ life_raised # "ConnectionResetError") =>
        /\ lpc = "closed"
        /\ child = "exited"

\* A close has ended, with or without an exception.
CloseEnded == lpc \in {"closed", "close_raised"}

\* C35: a close ends with the substrate released, and the error of the last
\* FLUSH written to a service that is gone is not raised by it, on fetch and
\* on push connections.
C35_CloseReleases ==
    CloseEnded =>
        /\ handle = "released"
        /\ life_raised \notin {"ConnectionResetError", "BrokenPipeError"}

\* A push connection on a pipe whose service is gone closes as C35 says.
C35_PushOnPipe ==
    (CloseEnded /\ lkind = "push" /\ lsubstrate = "file") =>
        /\ handle = "released"
        /\ life_raised \notin {"ConnectionResetError", "BrokenPipeError"}

\* C38: when the open fails, in the request of the hello or in the
\* advertisement, the substrate the connection acquired is released before
\* the caller sees the error: neither a failed nor a closed connection holds
\* a substrate handle.
C38_FailedOpenReleases ==
    lpc \in {"failed", "closed"} => handle # "held"

\* A service that cannot be started leaves no handle behind, and a closed
\* connection holds none.
C38_SpawnAndClosed ==
    (lpc = "closed" \/ (lpc = "failed" /\ hello_outcome = "spawn" /\ lsubstrate # "http"))
        => handle # "held"

\* ------------------------------------------------------- hello, push-back
\* The open has been run.
HelloRun == hpc \notin {"idle", "new"}

\* The open pushed a packet back.
PushedBack == HelloRun /\ opened.err = "" /\ opened.conn._shifted_packets # << >>

\* C36: the push-back queue holds at most one packet, after the open and
\* after the hello; it is empty on a connection that is ready; and the
\* packet the open pushed back is what the next _read_packet returns, with
\* the stream untouched.
C36_PushBack ==
    /\ HelloRun =>
          /\ Len(opened.conn._shifted_packets) <= 1
          /\ Len(hconn._shifted_packets) <= 1
    /\ hpc = "ready" => hconn._shifted_packets = << >>
    /\ PushedBack =>
          /\ read_packet(opened.conn).err = ""
          /\ read_packet(opened.conn).pkt = opened.conn._shifted_packets[1]
          /\ read_packet(opened.conn).conn.reader = opened.conn.reader
          /\ read_packet(opened.conn).conn._shifted_packets = << >>

\* The open pushed back the packet behind the service header, with more of
\* the advertisement still on the stream, and the hello went through.
C36_Witness ==
    /\ hpc = "ready"
    /\ PushedBack
    /\ Len(body) >= 4
    /\ body[2] = FLUSH_PKT
    /\ opened.conn.reader # << >>

C36_WitnessVersion2First ==
    /\ hpc = "ready"
    /\ PushedBack
    /\ body[1] = Pkt("DATA", <<"version", " ", "2", "\n">>)

\* -------------------------------------------------------------------- ssh
\* C37: on SSH the packets delivered are the packets the remote wrote, in
\* order; a read raises only when the stream has ended with no whole packet
\* left to deliver, and then ConnectionException with the remote's stderr in
\* its text.
C37_SshDelivers ==
    /\ IsPrefix(ssh_delivered, remote_wrote)
    /\ ssh_pc = "raised" =>
          /\ ssh_raised = "ConnectionException"
          /\ ssh_message = server_closed_connection(stderr_text)
          /\ sconn.eof
          /\ ssh_delivered = remote_wrote

\* A read that starts before the exit status has come delivers what the
\* remote wrote: the packet, and at the end of the stream the exception with
\* stderr.
C37_BeforeExitStatus ==
    (ssh_pc = "raised" /\ exit_status = "None") =>
        /\ ssh_raised = "ConnectionException"
        /\ ssh_message = server_closed_connection(stderr_text)
        /\ sconn.eof
        /\ ssh_delivered = remote_wrote

C37_WitnessStderr ==
    /\ ssh_pc = "raised"
    /\ exit_status = "None"
    /\ stderr_text # << >>
    /\ Len(remote_wrote) = MaxRemote

\* ------------------------------------------------- push, nothing to report
\* push_changes has run and no command went out: the FLUSH is all that
\* _generate_receive_commands yielded.
OnlyFlushSent == ppc # "ready" /\ pushed.written # << >> /\ pushed.written[1] = FLUSH_PKT

\* The server took the request and sends no status report.
NoReport ==
    /\ push_call.response = << >>
    /\ ~(pconn.substrate = "http" /\ push_call.status # 200)

\* C39: when only a FLUSH was sent and the server, having seen no command,
\* sends no report, push_changes returns: it neither waits for a report nor
\* raises.
C39_OnlyFlush == (OnlyFlushSent /\ NoReport) => ppc = "done"

\* With the stream of the service at EOF as the call looks for the report,
\* or without report-status among the server's capabilities, the same call
\* returns.
C39_OnlyFlushAtEof ==
    (/\ OnlyFlushSent
     /\ NoReport
     /\ push_call.end = "eof" \/ <<"report-status">> \notin pconn.capabilities)
        => ppc = "done"

C39_WitnessDeletesDropped ==
    /\ ppc = "done"
    /\ OnlyFlushSent
    /\ NoReport
    /\ push_call.changes # << >>
    /\ <<"report-status">> \in pconn.capabilities

\* ------------------------------------------------- update_mirror, the wants
\* update_mirror is past the fetch step.
PastFetch == jpc \in {"push", "exit_mirror", "exit_upstream", "returned", "raised"}

\* The changes are deletes, all of them, and the run is not a dry run.
DeletesOnly ==
    /\ job_changes # << >>
    /\ \A i \in 1..Len(job_changes) : job_changes[i].new = NULL_OBJECT_ID
    /\ ~dry_run

\* C40: fetch_objects is called only with wants that are not empty and do
\* not hold NULL_OBJECT_ID, the new ids of the changes; a list of deletes
\* only is not fetched for and is still pushed.
C40_FetchWants ==
    /\ fetch_calls > 0 =>
          /\ new_objects(job_changes) # {}
          /\ NULL_OBJECT_ID \notin new_objects(job_changes)
          /\ \A i \in 1..Len(job_changes) :
                job_changes[i].new # NULL_OBJECT_ID => job_changes[i].new \in new_objects(job_changes)
    /\ (PastFetch /\ job_changes # << >> /\ ~dry_run /\ ~DeletesOnly) => fetch_calls = 1
    /\ DeletesOnly => fetch_calls = 0
    /\ (DeletesOnly /\ PastFetch /\ jpc # "push") => push_calls = 1
    /\ (DeletesOnly /\ jpc = "returned") => result = job_changes

\* Deletes only, pushed without a fetch.
C40_Witness ==
    /\ DeletesOnly
    /\ jpc = "returned"
    /\ push_calls = 1
    /\ fetch_calls = 0

\* A delete among other changes: the fetch asks for the new ids of the
\* others.
C40_WitnessMixed ==
    /\ fetch_calls = 1
    /\ \E i \in 1..Len(job_changes) : job_changes[i].new = NULL_OBJECT_ID
    /\ jpc = "returned"

====
